---- MODULE Spec2Model ----
(***************************************************************************)
(* Mode-cycling engine of the basketball scoreboard plugin                 *)
(* (src/manager.py, class BasketballScoreboardPlugin).                     *)
(*                                                                         *)
(* Conventions                                                             *)
(*  - a mode identifier "nba_live" is the tuple <<"nba", "live">>: the     *)
(*    tokens of the string split at "_".  startswith("nba_") is a test on  *)
(*    the first token, endswith("_live") a test on the last one, and       *)
(*    split("_", 1)[1] is the second token.                                *)
(*  - a Python dict is a function whose DOMAIN is the set of keys present; *)
(*    d.get(k, default) is Get(d, k, default).                             *)
(*  - list indices are 0-based as in the source: modes[i] is modes[i + 1]. *)
(*  - a manager object (nba_live, ...) is named by the tuple of its mode;  *)
(*    hasattr(self, "nba_live") is <<"nba","live">> \in DOMAIN managers.   *)
(*  - the manager classes of the host (their update() and display()) are   *)
(*    the environment: what they return and the game lists they hold are   *)
(*    inputs of the actions.                                               *)
(***************************************************************************)
EXTENDS Integers, Sequences, FiniteSets, TLC

\* ------------------------------------------------------------------ bounds
MaxGames == 2          \* longest game list a recent or upcoming manager holds
MaxLiveGames == 1      \* longest list of live games
MaxDuration == 1       \* largest configured display_duration

\* time.time() is far larger than any configured duration
StartTime == MaxDuration + 1
Times == StartTime .. (StartTime + MaxDuration)

\* ------------------------------------------------------------- vocabulary
Leagues == <<"nba", "wnba", "ncaam", "ncaaw">>
LeagueSet == {Leagues[i] : i \in 1..Len(Leagues)}
ModeTypes == <<"live", "recent", "upcoming">>
TypeSet == {ModeTypes[i] : i \in 1..Len(ModeTypes)}
ManagerNames == {<<l, t>> : l \in LeagueSet, t \in TypeSet}

NoManager == <<>>                 \* Python None where a manager is expected
NoLeague == "none"                \* Python None for _current_display_league
NoIndex == -1                     \* manager exposes no current_game_index

Get(d, k, default) == IF k \in DOMAIN d THEN d[k] ELSE default
EmptyDict == [k \in {} |-> TRUE]
Dicts(K, V) == UNION {[D -> V] : D \in SUBSET K}

Range(s) == {s[i] : i \in 1..Len(s)}

\* ------------------------------------------------------------------ games
FavGame == [home_abbr |-> "LAL", away_abbr |-> "BOS"]
OtherGame == [home_abbr |-> "NYK", away_abbr |-> "MIA"]

RECURSIVE Rep(_, _)
Rep(g, n) == IF n = 0 THEN <<>> ELSE <<g>> \o Rep(g, n - 1)

\* the lists a live manager may hold after an update
LiveLists == {Rep(FavGame, a) \o Rep(OtherGame, b) :
                 a \in 0..MaxLiveGames, b \in 0..MaxLiveGames} \cap
             UNION {[1..n -> {FavGame, OtherGame}] : n \in 0..MaxLiveGames}
\* game lists told apart by their length only
PlainLists == {Rep(OtherGame, n) : n \in 0..MaxGames}

VARIABLES
    constructed,              \* __init__ has run
    config,                   \* self.config
    managers,                 \* the manager objects that exist, with their game lists
    modes,                    \* self.modes
    current_mode_index,       \* self.current_mode_index
    last_mode_switch,         \* self.last_mode_switch
    seen_modes,               \* self._dynamic_cycle_seen_modes
    mode_to_manager_key,      \* self._dynamic_mode_to_manager_key
    manager_progress,         \* self._dynamic_manager_progress
    managers_completed,       \* self._dynamic_managers_completed
    cycle_complete,           \* self._dynamic_cycle_complete
    display_league,           \* self._current_display_league
    display_mode_type,        \* self._current_display_mode_type
    cache,                    \* what cache_manager holds, by key
    ncaaw_favorite_teams,     \* favorite_teams of an NCAA Women's manager
    team_id_cache,            \* its _team_id_cache
    team_id_cache_timestamp,  \* its _team_id_cache_timestamp
    team_id_stored_at,        \* auxiliary: the clock reading at which each entry was stored
    clock,                    \* time.time(), in steps of half a cache lifetime
    background_available,     \* background_service and background_enabled of an NCAA Men's manager
    background_fetch_requests,\* its background_fetch_requests
    in_flight,                \* the requests the background service has not completed
    submitting,               \* the request id a _fetch_ncaam_api_data call holds between
                              \* submit_fetch_request and recording it; NoRequest otherwise
    current_games,            \* current_games of the standalone plugin
    game_event,               \* the raw event handed to Basketball._extract_game_details
    details,                  \* what _extract_game_details made of it
    score,                    \* game["home_score"] as _draw_scorebug_layout reads it
    score_text,               \* what format_score made of it
    current_game              \* current_game of a BasketballLive manager

vars == <<constructed, config, managers, modes, current_mode_index, last_mode_switch,
          seen_modes, mode_to_manager_key, manager_progress, managers_completed,
          cycle_complete, display_league, display_mode_type,
          cache, ncaaw_favorite_teams, team_id_cache, team_id_cache_timestamp,
          team_id_stored_at, clock, background_available, background_fetch_requests,
          in_flight, submitting, current_games,
          game_event, details, score, score_text, current_game>>

cfgvars == <<constructed, config, modes>>
cyclevars == <<current_mode_index, last_mode_switch>>
dynvars == <<seen_modes, mode_to_manager_key, manager_progress, managers_completed,
             cycle_complete>>
ctxvars == <<display_league, display_mode_type>>
pluginvars == <<cfgvars, managers, cyclevars, dynvars, ctxvars>>
teamidvars == <<team_id_cache, team_id_cache_timestamp, team_id_stored_at>>
backgroundvars == <<background_available, background_fetch_requests, in_flight, submitting>>
sportvars == <<game_event, details, score, score_text, current_game>>
fetchvars == <<cache, ncaaw_favorite_teams, teamidvars, clock, backgroundvars, current_games,
               sportvars>>

\* ----------------------------------------------------------- configuration
\* self.is_enabled, self.<league>_enabled, self.<league>_live_priority,
\* self.display_duration as __init__ reads them from the config
is_enabled == Get(config, "enabled", TRUE)
LeagueConfig(cfg, l) == Get(cfg, l, EmptyDict)
LeagueEnabledIn(cfg, l) == Get(LeagueConfig(cfg, l), "enabled", FALSE)
league_enabled(l) == LeagueEnabledIn(config, l)
live_priority(l) == Get(LeagueConfig(config, l), "live_priority", FALSE)
display_duration == Get(config, "display_duration", 30)


\* ------------------------------------------------------------ mode registry
ShowKey(t) == CASE t = "live" -> "show_live"
                [] t = "recent" -> "show_recent"
                [] OTHER -> "show_upcoming"

\* league_modes(league) inside _get_available_modes
league_modes(cfg, l) ==
    LET display_modes == Get(LeagueConfig(cfg, l), "display_modes", EmptyDict)
    IN  [t \in TypeSet |-> Get(display_modes, ShowKey(t), TRUE)]

\* variant: the block appends recent before live
LeagueBlock_RecentFirst(cfg, l) ==
    LET flags == league_modes(cfg, l)
    IN  (IF flags["recent"] THEN <<(<<l, "recent">>)>> ELSE <<>>) \o
        (IF flags["live"] THEN <<(<<l, "live">>)>> ELSE <<>>) \o
        (IF flags["upcoming"] THEN <<(<<l, "upcoming">>)>> ELSE <<>>)

\* the modes one "if self.<league>_enabled:" block appends
LeagueBlock(cfg, l) ==
    LET flags == league_modes(cfg, l)
    IN  (IF flags["live"] THEN <<(<<l, "live">>)>> ELSE <<>>) \o
        (IF flags["recent"] THEN <<(<<l, "recent">>)>> ELSE <<>>) \o
        (IF flags["upcoming"] THEN <<(<<l, "upcoming">>)>> ELSE <<>>)

RECURSIVE AppendLeagues(_, _)
AppendLeagues(cfg, i) ==
    IF i > Len(Leagues) THEN <<>>
    ELSE (IF LeagueEnabledIn(cfg, Leagues[i]) THEN LeagueBlock(cfg, Leagues[i]) ELSE <<>>)
         \o AppendLeagues(cfg, i + 1)

DefaultModes == <<(<<"nba", "live">>), <<"nba", "recent">>, <<"nba", "upcoming">>>>

\* variant: no default when nothing was appended
GetAvailableModes_NoDefault(cfg) == AppendLeagues(cfg, 1)

GetAvailableModes(cfg) ==
    LET appended == AppendLeagues(cfg, 1)
    IN  IF appended = <<>> THEN DefaultModes ELSE appended

\* _initialize_managers: three managers per enabled league, lists still empty
InitialManagers(cfg) ==
    [m \in {n \in ManagerNames : LeagueEnabledIn(cfg, n[1])} |->
        [games |-> <<>>,
         favorite_teams |-> Get(LeagueConfig(cfg, m[1]), "favorite_teams", {})]]

\* ------------------------------------------------------------ live content
\* variant: the league's live_priority flag is not looked at
LeagueLive_IgnoresPriority(l) ==
    IF league_enabled(l) /\ <<l, "live">> \in DOMAIN managers
    THEN LET live_games == managers[<<l, "live">>].games
             favorite_teams == managers[<<l, "live">>].favorite_teams
         IN  IF live_games # <<>>
             THEN IF favorite_teams # {}
                  THEN \E i \in 1..Len(live_games) :
                          \/ live_games[i].home_abbr \in favorite_teams
                          \/ live_games[i].away_abbr \in favorite_teams
                  ELSE TRUE
             ELSE FALSE
    ELSE FALSE

\* one "Check <league> live content" block of has_live_content
LeagueLive(l) ==
    IF league_enabled(l) /\ live_priority(l) /\ <<l, "live">> \in DOMAIN managers
    THEN LET live_games == managers[<<l, "live">>].games
             favorite_teams == managers[<<l, "live">>].favorite_teams
         IN  IF live_games # <<>>
             THEN IF favorite_teams # {}
                  THEN \E i \in 1..Len(live_games) :
                          \/ live_games[i].home_abbr \in favorite_teams
                          \/ live_games[i].away_abbr \in favorite_teams
                  ELSE TRUE
             ELSE FALSE
    ELSE FALSE

has_live_content ==
    IF ~is_enabled THEN FALSE
    ELSE LeagueLive("nba") \/ LeagueLive("wnba") \/ LeagueLive("ncaam") \/ LeagueLive("ncaaw")

\* ------------------------------------------------------- manager resolution
\* _get_current_manager for index i: the manager's name, NoManager for None;
\* an enabled league's manager that was never created raises AttributeError
AttributeError == <<"AttributeError">>

GetCurrentManager(i) ==
    IF modes = <<>> THEN NoManager
    ELSE LET current_mode == modes[i + 1]
         IN  IF current_mode[1] \in LeagueSet
             THEN IF ~league_enabled(current_mode[1]) THEN NoManager
                  ELSE IF current_mode[2] \in TypeSet
                       THEN IF current_mode \in DOMAIN managers
                            THEN current_mode ELSE AttributeError
                       ELSE NoManager
             ELSE NoManager

\* _get_manager_for_mode: getattr(self, name, None) never raises
GetManagerForMode(mode_name) ==
    IF mode_name[1] \in LeagueSet
    THEN IF ~league_enabled(mode_name[1]) THEN NoManager
         ELSE IF mode_name[2] \in TypeSet /\ mode_name \in DOMAIN managers
              THEN mode_name ELSE NoManager
    ELSE NoManager

\* _get_total_games_for_manager: the length of the manager's game list
GetTotalGamesForManager(manager) ==
    IF manager = NoManager THEN 0 ELSE Len(managers[manager].games)

\* _build_manager_key: f"{mode_name}:{manager.__class__.__name__}"; every
\* manager object has a class of its own, named here by the manager
BuildManagerKey(mode_name, manager) == <<mode_name, manager>>


\* --------------------------------------------------------- dynamic duration
NoType == "none"                  \* Python None for _current_display_mode_type

\* BasePlugin.supports_dynamic_duration, reached through super(): the global flag
BaseSupportsDynamicDuration ==
    Get(Get(config, "dynamic_duration", EmptyDict), "enabled", FALSE)

\* supports_dynamic_duration for the display context (league, mode_type)
SupportsDynamicDuration(league, mode_type) ==
    IF ~is_enabled THEN FALSE
    ELSE IF league = NoLeague \/ mode_type = NoType THEN BaseSupportsDynamicDuration
    ELSE LET league_config == LeagueConfig(config, league)
             league_dynamic == Get(league_config, "dynamic_duration", EmptyDict)
             league_modes_cfg == Get(league_dynamic, "modes", EmptyDict)
             mode_config == Get(league_modes_cfg, mode_type, EmptyDict)
             global_dynamic == Get(config, "dynamic_duration", EmptyDict)
             global_modes == Get(global_dynamic, "modes", EmptyDict)
             global_mode_config == Get(global_modes, mode_type, EmptyDict)
         IN  IF "enabled" \in DOMAIN mode_config THEN mode_config["enabled"]
             ELSE IF "enabled" \in DOMAIN league_dynamic THEN league_dynamic["enabled"]
             ELSE IF "enabled" \in DOMAIN global_mode_config
                  THEN global_mode_config["enabled"]
             ELSE BaseSupportsDynamicDuration

\* _dynamic_feature_enabled
DynamicFeatureEnabled(league, mode_type) ==
    IF ~is_enabled THEN FALSE ELSE SupportsDynamicDuration(league, mode_type)

\* the five dynamic-duration fields as one value
DynState == [seen |-> seen_modes, key |-> mode_to_manager_key,
             progress |-> manager_progress, completed |-> managers_completed,
             complete |-> cycle_complete]

SetKey(d, k, v) == [x \in (DOMAIN d) \cup {k} |-> IF x = k THEN v ELSE d[x]]

Identifier(current_index) == <<"index", current_index>>

\* variant: a manager is complete as soon as one index is recorded
RecordDynamicProgress_FirstIndex(D, idx, current_manager, gi, league, mode_type) ==
    IF ~DynamicFeatureEnabled(league, mode_type) \/ modes = <<>>
    THEN [D EXCEPT !.complete = TRUE]
    ELSE LET current_mode == modes[idx + 1]
             manager_key == BuildManagerKey(current_mode, current_manager)
             D1 == [D EXCEPT !.seen = @ \cup {current_mode},
                             !.key = SetKey(@, current_mode, manager_key)]
             total_games == GetTotalGamesForManager(current_manager)
         IN  IF total_games <= 1
             THEN [D1 EXCEPT !.completed = @ \cup {manager_key}]
             ELSE LET current_index == IF gi = NoIndex THEN 0 ELSE gi
                      added == Get(D1.progress, manager_key, {})
                                   \cup {Identifier(current_index)}
                      valid_identifiers == {Identifier(i) : i \in 0..(total_games - 1)}
                      progress_set == added \cap valid_identifiers
                      D2 == [D1 EXCEPT !.progress = SetKey(@, manager_key, progress_set)]
                  IN  IF Cardinality(progress_set) >= 1
                      THEN [D2 EXCEPT !.completed = @ \cup {manager_key}]
                      ELSE D2

\* _record_dynamic_progress(current_manager) run on the fields D with
\* current_mode_index = idx; gi is the manager's current_game_index
RecordDynamicProgress(D, idx, current_manager, gi, league, mode_type) ==
    IF ~DynamicFeatureEnabled(league, mode_type) \/ modes = <<>>
    THEN [D EXCEPT !.complete = TRUE]
    ELSE LET current_mode == modes[idx + 1]
             manager_key == BuildManagerKey(current_mode, current_manager)
             D1 == [D EXCEPT !.seen = @ \cup {current_mode},
                             !.key = SetKey(@, current_mode, manager_key)]
             total_games == GetTotalGamesForManager(current_manager)
         IN  IF total_games <= 1
             THEN [D1 EXCEPT !.completed = @ \cup {manager_key}]
             ELSE LET current_index == IF gi = NoIndex THEN 0 ELSE gi
                      added == Get(D1.progress, manager_key, {})
                                   \cup {Identifier(current_index)}
                      valid_identifiers == {Identifier(i) : i \in 0..(total_games - 1)}
                      progress_set == added \cap valid_identifiers
                      D2 == [D1 EXCEPT !.progress = SetKey(@, manager_key, progress_set)]
                  IN  IF Cardinality(progress_set) >= total_games
                      THEN [D2 EXCEPT !.completed = @ \cup {manager_key}]
                      ELSE D2

\* the "for mode_name in required_modes" loop of _evaluate_dynamic_cycle_completion
RECURSIVE EvaluateLoop(_, _)
EvaluateLoop(D, i) ==
    IF i > Len(modes) THEN [D EXCEPT !.complete = TRUE]
    ELSE LET mode_name == modes[i]
         IN  IF mode_name \notin D.seen THEN [D EXCEPT !.complete = FALSE]
             ELSE IF mode_name \notin DOMAIN D.key THEN [D EXCEPT !.complete = FALSE]
             ELSE LET manager_key == D.key[mode_name]
                  IN  IF manager_key \notin D.completed
                      THEN LET manager == GetManagerForMode(mode_name)
                               total_games == GetTotalGamesForManager(manager)
                           IN  IF total_games <= 1
                               THEN EvaluateLoop(
                                      [D EXCEPT !.completed = @ \cup {manager_key}], i + 1)
                               ELSE [D EXCEPT !.complete = FALSE]
                      ELSE EvaluateLoop(D, i + 1)

\* variant: the cycle is complete once every mode was seen
EvaluateDynamicCycleCompletion_SeenOnly(D, league, mode_type) ==
    IF ~DynamicFeatureEnabled(league, mode_type) THEN [D EXCEPT !.complete = TRUE]
    ELSE IF modes = <<>> THEN [D EXCEPT !.complete = TRUE]
    ELSE [D EXCEPT !.complete = \A i \in 1..Len(modes) : modes[i] \in D.seen]

\* _evaluate_dynamic_cycle_completion
EvaluateDynamicCycleCompletion(D, league, mode_type) ==
    IF ~DynamicFeatureEnabled(league, mode_type) THEN [D EXCEPT !.complete = TRUE]
    ELSE IF modes = <<>> THEN [D EXCEPT !.complete = TRUE]
    ELSE EvaluateLoop(D, 1)

\* the assignment of the five fields
SetDyn(D) ==
    /\ seen_modes' = D.seen
    /\ mode_to_manager_key' = D.key
    /\ manager_progress' = D.progress
    /\ managers_completed' = D.completed
    /\ cycle_complete' = D.complete


\* ------------------------------------------------------------------ inputs
\* what a manager's display(force_clear) does: returns True, False or None, or raises
Results == {"True", "False", "None", "raise"}
\* the current_game_index a manager exposes when its progress is recorded
IndexInputs == {NoIndex} \cup (0..(MaxGames - 1))
\* the display_mode strings of the host, as tokens; <<"clock">> has no known suffix
DisplayModeInputs == {<<"basketball", "live">>, <<"basketball", "recent">>,
                      <<"basketball", "upcoming">>, <<"clock">>}
\* the display_mode strings the steps take
StepDisplayModes == {<<"basketball", "live">>, <<"clock">>}
\* the results of the managers tried in turn: only the first that is not False matters
ResultSeqs(n) == {Rep("False", n)} \cup
                 {Rep("False", j) \o <<o>> \o Rep("False", n - j - 1) :
                     j \in 0..(n - 1), o \in Results \ {"False"}}

\* what a call did: the manager whose display() was called last (NoManager when none
\* was), the force_clear it was given, whether it raised, and the value returned
Outcome(call, mode, force_clear, raised, result) ==
    [call |-> call, mode |-> mode, force_clear |-> force_clear,
     raised |-> raised, result |-> result]

EndsWith(name, suffix) == Len(name) >= 2 /\ name[Len(name)] = suffix

\* ---------------------------------------------------- display(): own cycling
\* "for i, mode in enumerate(self.modes): if mode.endswith('_live')": the first
\* such index, or -1 when the loop finds none
FirstLiveIndex ==
    IF \E i \in 1..Len(modes) : EndsWith(modes[i], "live")
    THEN (CHOOSE i \in 1..Len(modes) :
             /\ EndsWith(modes[i], "live")
             /\ \A j \in 1..(i - 1) : ~EndsWith(modes[j], "live")) - 1
    ELSE -1

\* variant: the dwell check is strict
CyclePosition_StrictDwell(t, force_clear) ==
    LET live == has_live_content
        current_mode == IF modes # <<>> THEN modes[current_mode_index + 1] ELSE <<>>
        on_live == current_mode # <<>> /\ EndsWith(current_mode, "live")
        should_stay_on_live == live /\ on_live
        switch == live /\ ~on_live /\ FirstLiveIndex # -1
        idx1 == IF switch THEN FirstLiveIndex ELSE current_mode_index
        fc1 == IF switch THEN TRUE ELSE force_clear
        lms1 == IF switch THEN t ELSE last_mode_switch
        advance == ~should_stay_on_live /\ t - lms1 > display_duration
    IN  [index |-> IF advance THEN (idx1 + 1) % Len(modes) ELSE idx1,
         last_mode_switch |-> IF advance THEN t ELSE lms1,
         force_clear |-> IF advance THEN TRUE ELSE fc1]

\* the live check and the dwell check of display(): the index, the switch time
\* and force_clear they leave, for clock reading t
CyclePosition(t, force_clear) ==
    LET live == has_live_content
        current_mode == IF modes # <<>> THEN modes[current_mode_index + 1] ELSE <<>>
        on_live == current_mode # <<>> /\ EndsWith(current_mode, "live")
        should_stay_on_live == live /\ on_live
        switch == live /\ ~on_live /\ FirstLiveIndex # -1
        idx1 == IF switch THEN FirstLiveIndex ELSE current_mode_index
        fc1 == IF switch THEN TRUE ELSE force_clear
        lms1 == IF switch THEN t ELSE last_mode_switch
        advance == ~should_stay_on_live /\ t - lms1 >= display_duration
    IN  [index |-> IF advance THEN (idx1 + 1) % Len(modes) ELSE idx1,
         last_mode_switch |-> IF advance THEN t ELSE lms1,
         force_clear |-> IF advance THEN TRUE ELSE fc1]

\* display(force_clear) without display_mode at clock reading t, when the current
\* manager's display() does r and exposes current_game_index gi: the fields, the
\* display context and the outcome
CycleRender(t, force_clear, r, gi) ==
    LET pos == CyclePosition(t, force_clear)
        current_manager == GetCurrentManager(pos.index)
        ctx == [league |-> display_league, mode_type |-> display_mode_type]
    IN  IF current_manager = NoManager \/ current_manager = AttributeError
        THEN [dyn |-> DynState, ctx |-> ctx,
              out |-> Outcome("display", NoManager, pos.force_clear,
                              current_manager = AttributeError, "False")]
        ELSE LET current_mode == modes[pos.index + 1]
                 ctx1 == [league |-> current_mode[1], mode_type |-> current_mode[2]]
                 recorded == IF r # "False"
                             THEN RecordDynamicProgress(DynState, pos.index, current_manager,
                                      gi, ctx1.league, ctx1.mode_type)
                             ELSE DynState
             IN  IF r = "raise"
                 THEN [dyn |-> DynState, ctx |-> ctx1,
                       out |-> Outcome("display", current_manager, pos.force_clear,
                                       TRUE, "False")]
                 ELSE [dyn |-> EvaluateDynamicCycleCompletion(recorded, ctx1.league,
                                                              ctx1.mode_type),
                       ctx |-> ctx1,
                       out |-> Outcome("display", current_manager, pos.force_clear,
                                       FALSE, r)]

\* the display() call as a step; the fields it leaves do not depend on force_clear
DisplayCycle(t, r, gi) ==
    /\ constructed
    /\ UNCHANGED fetchvars
    /\ UNCHANGED <<cfgvars, managers>>
    /\ IF ~is_enabled
       THEN UNCHANGED <<cyclevars, dynvars, ctxvars>>
       ELSE LET pos == CyclePosition(t, FALSE)
                done == CycleRender(t, FALSE, r, gi)
            IN  /\ current_mode_index' = pos.index
                /\ last_mode_switch' = pos.last_mode_switch
                /\ SetDyn(done.dyn)
                /\ display_league' = done.ctx.league
                /\ display_mode_type' = done.ctx.mode_type

\* ------------------------------------------- display(): explicit display_mode
\* "if display_mode.endswith('_live') ... ": the mode type, NoType when unknown
ModeTypeOf(display_mode) ==
    IF EndsWith(display_mode, "live") THEN "live"
    ELSE IF EndsWith(display_mode, "recent") THEN "recent"
    ELSE IF EndsWith(display_mode, "upcoming") THEN "upcoming"
    ELSE NoType

\* managers_to_try: the manager of that type of each enabled league, in league order
RECURSIVE ManagersToTryFrom(_, _)
ManagersToTryFrom(mode_type, i) ==
    IF i > Len(Leagues) THEN <<>>
    ELSE (IF league_enabled(Leagues[i]) /\ <<Leagues[i], mode_type>> \in DOMAIN managers
          THEN <<(<<Leagues[i], mode_type>>)>> ELSE <<>>)
         \o ManagersToTryFrom(mode_type, i + 1)
ManagersToTry(mode_type) == ManagersToTryFrom(mode_type, 1)

\* "if current_manager == self.nba_live or current_manager == self.nba_recent or
\* ... elif ...": the league found for the manager.  The comparisons read the
\* attributes of each league in turn up to the match; reading an attribute that
\* was never created raises AttributeError
RECURSIVE IdentifyFrom(_, _, _)
IdentifyFrom(manager, i, j) ==
    IF i > Len(Leagues) THEN NoLeague
    ELSE IF j > Len(ModeTypes) THEN IdentifyFrom(manager, i + 1, 1)
    ELSE IF <<Leagues[i], ModeTypes[j]>> \notin DOMAIN managers THEN "AttributeError"
    ELSE IF manager = <<Leagues[i], ModeTypes[j]>> THEN Leagues[i]
    ELSE IdentifyFrom(manager, i, j + 1)
IdentifyLeague(manager) == IdentifyFrom(manager, 1, 1)

\* "for current_manager in managers_to_try": from the k-th manager on, with the
\* display context ctx left by the managers before it; rs[k] is what the k-th
\* manager's display() does.  Gives the fields, the context and the outcome
RECURSIVE TryManagers(_, _, _, _, _, _, _)
TryManagers(to_try, k, ctx, mode_type, force_clear, rs, gi) ==
    LET called == IF k > 1 THEN to_try[k - 1] ELSE NoManager
    IN  IF k > Len(to_try)
        THEN [dyn |-> DynState, ctx |-> ctx,
              out |-> Outcome("display_mode", called, force_clear, FALSE, "False")]
        ELSE LET current_manager == to_try[k]
                 league == IdentifyLeague(current_manager)
                 ctx1 == [league |-> IF league = NoLeague THEN ctx.league ELSE league,
                          mode_type |-> mode_type]
             IN  IF league = "AttributeError"
                 THEN [dyn |-> DynState, ctx |-> ctx,
                       out |-> Outcome("display_mode", called, force_clear, TRUE, "False")]
                 ELSE IF rs[k] = "False"
                 THEN TryManagers(to_try, k + 1, ctx1, mode_type, force_clear, rs, gi)
                 ELSE IF rs[k] = "raise"
                 THEN [dyn |-> DynState, ctx |-> ctx1,
                       out |-> Outcome("display_mode", current_manager,
                                       force_clear, TRUE, "False")]
                 ELSE [dyn |-> EvaluateDynamicCycleCompletion(
                                  RecordDynamicProgress(DynState, current_mode_index,
                                      current_manager, gi, ctx1.league, ctx1.mode_type),
                                  ctx1.league, ctx1.mode_type),
                       ctx |-> ctx1,
                       out |-> Outcome("display_mode", current_manager,
                                       force_clear, FALSE, "True")]

\* what display() hands back to the host for the outcome out of its branch
DisplayReturns(out) ==
    IF ~is_enabled \/ out.raised THEN "False" ELSE out.result

\* variant: a call with display_mode restarts the dwell time
DisplayMode_RestartsDwell(display_mode, rs, gi) ==
    /\ constructed
    /\ UNCHANGED fetchvars
    /\ UNCHANGED <<cfgvars, managers, current_mode_index>>
    /\ last_mode_switch' = 0
    /\ IF ~is_enabled \/ ModeTypeOf(display_mode) = NoType
       THEN UNCHANGED <<dynvars, ctxvars>>
       ELSE LET mode_type == ModeTypeOf(display_mode)
                done == TryManagers(ManagersToTry(mode_type), 1,
                            [league |-> display_league, mode_type |-> display_mode_type],
                            mode_type, FALSE, rs, gi)
            IN  /\ SetDyn(done.dyn)
                /\ display_league' = done.ctx.league
                /\ display_mode_type' = done.ctx.mode_type

\* display(display_mode, force_clear) as a step; rs are the results of the managers
\* tried; the fields it leaves do not depend on force_clear
DisplayMode(display_mode, rs, gi) ==
    /\ constructed
    /\ UNCHANGED fetchvars
    /\ UNCHANGED <<cfgvars, managers, cyclevars>>
    /\ IF ~is_enabled \/ ModeTypeOf(display_mode) = NoType
       THEN UNCHANGED <<dynvars, ctxvars>>
       ELSE LET mode_type == ModeTypeOf(display_mode)
                done == TryManagers(ManagersToTry(mode_type), 1,
                            [league |-> display_league, mode_type |-> display_mode_type],
                            mode_type, FALSE, rs, gi)
            IN  /\ SetDyn(done.dyn)
                /\ display_league' = done.ctx.league
                /\ display_mode_type' = done.ctx.mode_type

\* ---------------------------------------------------------------- update()
\* the managers in the order update() calls them
ManagerOrder == <<<<"nba", "live">>, <<"nba", "recent">>, <<"nba", "upcoming">>,
                  <<"wnba", "live">>, <<"wnba", "recent">>, <<"wnba", "upcoming">>,
                  <<"ncaam", "live">>, <<"ncaam", "recent">>, <<"ncaam", "upcoming">>,
                  <<"ncaaw", "live">>, <<"ncaaw", "recent">>, <<"ncaaw", "upcoming">>>>

\* what the update() of one manager does in a call: it raises, or it comes
\* back with a list of games
Refreshed(games) == [raised |-> FALSE, games |-> games]
RefreshRaised == [raised |-> TRUE, games |-> <<>>]

\* the body of the try of update() from the i-th manager on: the first
\* exception leaves it for "except Exception", which logs
RECURSIVE UpdateFrom(_, _, _)
UpdateFrom(ms, i, outcomes) ==
    IF i > Len(ManagerOrder) THEN ms
    ELSE LET m == ManagerOrder[i]
         IN  IF m \notin DOMAIN ms THEN UpdateFrom(ms, i + 1, outcomes)
             ELSE IF outcomes[m].raised THEN ms
             ELSE UpdateFrom([ms EXCEPT ![m].games = outcomes[m].games], i + 1, outcomes)

\* update(), the managers answering outcomes
UpdateAll(outcomes) ==
    /\ constructed
    /\ UNCHANGED fetchvars
    /\ UNCHANGED <<cfgvars, cyclevars, dynvars, ctxvars>>
    /\ IF ~is_enabled THEN UNCHANGED managers
       ELSE managers' = UpdateFrom(managers, 1, outcomes)

\* update(): every manager of every enabled league refreshes its data.  In this
\* call manager m comes back with the list games; the other managers find their
\* data unchanged
Update(m, games) ==
    /\ m \in DOMAIN managers
    /\ UpdateAll([n \in DOMAIN managers |->
                     Refreshed(IF n = m THEN games ELSE managers[n].games)])

\* ----------------------------------------------------- dynamic duration hooks
\* variant: the completed set survives the reset
ResetCycleState_KeepsCompleted ==
    /\ constructed
    /\ UNCHANGED fetchvars
    /\ UNCHANGED <<cfgvars, managers, cyclevars, ctxvars>>
    /\ seen_modes' = {}
    /\ mode_to_manager_key' = EmptyDict
    /\ manager_progress' = EmptyDict
    /\ UNCHANGED managers_completed
    /\ cycle_complete' = FALSE

\* variant: the reset also rewinds the position to before the first mode
ResetCycleState_RewindsPosition ==
    /\ constructed
    /\ UNCHANGED fetchvars
    /\ UNCHANGED <<cfgvars, managers, last_mode_switch, ctxvars>>
    /\ current_mode_index' = 0 - 1
    /\ seen_modes' = {}
    /\ mode_to_manager_key' = EmptyDict
    /\ manager_progress' = EmptyDict
    /\ managers_completed' = {}
    /\ cycle_complete' = FALSE

\* reset_cycle_state()
ResetCycleState ==
    /\ constructed
    /\ UNCHANGED fetchvars
    /\ UNCHANGED <<cfgvars, managers, cyclevars, ctxvars>>
    /\ seen_modes' = {}
    /\ mode_to_manager_key' = EmptyDict
    /\ manager_progress' = EmptyDict
    /\ managers_completed' = {}
    /\ cycle_complete' = FALSE

\* the value is_cycle_complete() returns
IsCycleCompleteResult ==
    IF ~DynamicFeatureEnabled(display_league, display_mode_type) THEN TRUE
    ELSE EvaluateDynamicCycleCompletion(DynState, display_league,
                                        display_mode_type).complete

\* is_cycle_complete()
IsCycleComplete ==
    /\ constructed
    /\ UNCHANGED fetchvars
    /\ UNCHANGED <<cfgvars, managers, cyclevars, ctxvars>>
    /\ IF ~DynamicFeatureEnabled(display_league, display_mode_type)
       THEN UNCHANGED dynvars
       ELSE SetDyn(EvaluateDynamicCycleCompletion(DynState, display_league,
                                                  display_mode_type))


\* ------------------------------------------------------------ basketball.py
\* a Python string is the sequence of its pieces, a word or a single character each
Digit == <<"0", "1", "2", "3", "4", "5", "6", "7", "8", "9">>

\* str(n) of an integer
RECURSIVE Str(_)
Str(n) ==
    IF n < 0 THEN <<"-">> \o Str(0 - n)
    ELSE IF n < 10 THEN <<Digit[n + 1]>>
    ELSE Str(n \div 10) \o <<Digit[(n % 10) + 1]>>

\* the period_text branches of _extract_game_details
PeriodText(period, status_state, status_name, game_time) ==
    IF status_state = "in"
    THEN IF period = 0 THEN <<"Start">>
         ELSE IF 1 <= period /\ period <= 4 THEN <<"Q">> \o Str(period)
         ELSE <<"OT">> \o Str(period - 4)
    ELSE IF status_state = "halftime" \/ status_name = "STATUS_HALFTIME" THEN <<"HALF">>
    ELSE IF status_state = "post"
    THEN IF period > 4 THEN <<"Final/OT">> ELSE <<"Final">>
    ELSE IF status_state = "pre" THEN game_time
    ELSE <<>>

\* no record, returned for a rejected event
NoDetails == [kind |-> "none"]

\* the call of _extract_game_details_common on line 20: it hands back the five
\* values ("ok"), hands back None for them ("none"), or raises ("raises")
CommonOutcomes == {"ok", "none", "raises"}
Raised == [kind |-> "raised"]

\* variant: the abbreviations are not looked at
ExtractGameDetails_NoValidation(event) ==
    IF event.common = "raises" THEN Raised
    ELSE IF event.common = "none" THEN NoDetails
    ELSE LET period == Get(event.status, "period", 0)
             period_text == PeriodText(period, event.status.type.state,
                                       event.status.type.name, event.game_time)
         IN  [kind |-> "details", id |-> event.id,
              home_abbr |-> Get(event.details, "home_abbr", ""),
              away_abbr |-> Get(event.details, "away_abbr", ""),
              period |-> period, period_text |-> period_text]

\* _extract_game_details(game_event), event.details being the abbreviations of
\* the details dict: a KeyError on details['home_abbr'] or details['away_abbr']
\* is caught by "except Exception" and gives None
ExtractGameDetails(event) ==
    IF event.common = "raises" THEN Raised
    ELSE IF event.common = "none" THEN NoDetails
    ELSE LET period == Get(event.status, "period", 0)
             period_text == PeriodText(period, event.status.type.state,
                                       event.status.type.name, event.game_time)
         IN  IF "home_abbr" \notin DOMAIN event.details THEN NoDetails
             ELSE IF event.details.home_abbr = "" THEN NoDetails
             ELSE IF "away_abbr" \notin DOMAIN event.details THEN NoDetails
             ELSE IF event.details.away_abbr = "" THEN NoDetails
             ELSE [kind |-> "details", id |-> event.id,
                   home_abbr |-> event.details.home_abbr,
                   away_abbr |-> event.details.away_abbr,
                   period |-> period, period_text |-> period_text]

\* the raw events: each abbreviation present, empty or missing, the period
\* present or missing
MaxPeriod == 6
NoPeriod == 0 - 1
Missing == "<missing>"
StatusStates == {"in", "post", "pre"}
StatusNames == {"STATUS_IN_PROGRESS", "STATUS_HALFTIME", "STATUS_FINAL"}
GameTimes == {<<"7:30PM">>, <<"8:00PM">>}
AbbrDict(home_abbr, away_abbr) ==
    LET full == [home_abbr |-> home_abbr, away_abbr |-> away_abbr]
    IN  [k \in {key \in {"home_abbr", "away_abbr"} : full[key] # Missing} |-> full[k]]
StatusDict(period, status_state, status_name) ==
    IF period = NoPeriod THEN [type |-> [state |-> status_state, name |-> status_name]]
    ELSE [period |-> period, type |-> [state |-> status_state, name |-> status_name]]
RawEvent(common, abbrs, status, game_time) ==
    [common |-> common, id |-> "e1", details |-> abbrs, status |-> status,
     game_time |-> game_time]
NoEvent == RawEvent("none", AbbrDict(Missing, Missing), StatusDict(NoPeriod, "pre", "STATUS_FINAL"),
                    <<>>)
RawEvents ==
    {RawEvent("ok", AbbrDict(h, a), StatusDict(p, s, n), t) :
        h \in {"LAL", "", Missing}, a \in {"BOS", "", Missing},
        p \in {NoPeriod} \cup (0..MaxPeriod), s \in StatusStates, n \in StatusNames,
        t \in GameTimes}
    \cup {RawEvent(c, AbbrDict("LAL", "BOS"), StatusDict(1, "in", "STATUS_IN_PROGRESS"),
                   <<"7:30PM">>) : c \in {"none", "raises"}}

\* one call of _extract_game_details
ExtractStep ==
    \E event \in RawEvents :
        /\ game_event' = event
        /\ details' = ExtractGameDetails(event)
        /\ UNCHANGED <<pluginvars, cache, ncaaw_favorite_teams, teamidvars, clock,
                       backgroundvars, current_games, score, score_text, current_game>>

\* ------------------------------------------------------------- format_score
\* the pieces score strings are made of: digits, a sign, a blank, a decimal
\* point, the word "inf" and a letter
ScorePieces == {"0", "1", "5", "-", " ", ".", "inf", "x"}
IsDigit(c) == \E d \in 1..10 : Digit[d] = c
DigitValue(c) == (CHOOSE d \in 1..10 : Digit[d] = c) - 1

\* int(s) of a sequence of digits
RECURSIVE DigitsValue(_)
DigitsValue(s) ==
    IF s = <<>> THEN 0 ELSE 10 * DigitsValue(SubSeq(s, 1, Len(s) - 1)) + DigitValue(s[Len(s)])

\* s.strip()
RECURSIVE Strip(_)
Strip(s) ==
    IF s = <<>> THEN s
    ELSE IF s[1] = " " THEN Strip(Tail(s))
    ELSE IF s[Len(s)] = " " THEN Strip(SubSeq(s, 1, Len(s) - 1))
    ELSE s

\* the longest run of digits s starts with
RECURSIVE LeadingDigits(_)
LeadingDigits(s) ==
    IF s = <<>> \/ ~IsDigit(s[1]) THEN <<>> ELSE <<s[1]>> \o LeadingDigits(Tail(s))

\* re.findall(r'\d+', s)[0], or the empty sequence when nothing matches
RECURSIVE FirstNumber(_)
FirstNumber(s) ==
    IF s = <<>> THEN <<>>
    ELSE IF IsDigit(s[1]) THEN LeadingDigits(s)
    ELSE FirstNumber(Tail(s))

\* float(s) of a string: an optional sign, then "inf", or digits with an
\* optional point and fraction, or a point and a fraction; blanks around it are
\* ignored and anything else is a ValueError. whole is the part before the
\* point, part tells whether a non-zero fraction follows it.
FloatOfString(s) ==
    LET t == Strip(s)
        signed == t # <<>> /\ t[1] = "-"
        u == IF signed THEN Tail(t) ELSE t
        whole == LeadingDigits(u)
        after == SubSeq(u, Len(whole) + 1, Len(u))
        fraction == IF after # <<>> /\ after[1] = "." THEN Tail(after) ELSE <<>>
        number == /\ whole # <<>> \/ fraction # <<>>
                  /\ after = <<>> \/ after[1] = "."
                  /\ \A i \in 1..Len(fraction) : IsDigit(fraction[i])
    IN  IF u = <<"inf">>
        THEN [error |-> "none", negative |-> signed, inf |-> TRUE, whole |-> 0, part |-> FALSE]
        ELSE IF number
        THEN [error |-> "none", negative |-> signed, inf |-> FALSE, whole |-> DigitsValue(whole),
              part |-> \E i \in 1..Len(fraction) : fraction[i] # "0"]
        ELSE [error |-> "ValueError", negative |-> FALSE, inf |-> FALSE, whole |-> 0,
              part |-> FALSE]

\* float(n) of an integer
FloatOfInt(n) ==
    [error |-> "none", negative |-> n < 0, inf |-> FALSE, whole |-> IF n < 0 THEN 0 - n ELSE n,
     part |-> FALSE]

\* the values a score can be: None, an integer, a string, a dict
NoneScore == [kind |-> "none", value |-> 0, chars |-> <<>>]
IntScore(n) == [kind |-> "int", value |-> n, chars |-> <<>>]
StrScore(s) == [kind |-> "str", value |-> 0, chars |-> s]
DictScore(d) == [kind |-> "dict", value |-> 0, chars |-> <<>>, entries |-> d]

\* float(v) of a plain value: TypeError for None
FloatOf(v) ==
    IF v.kind = "int" THEN FloatOfInt(v.value)
    ELSE IF v.kind = "str" THEN FloatOfString(v.chars)
    ELSE [error |-> "TypeError", negative |-> FALSE, inf |-> FALSE, whole |-> 0, part |-> FALSE]

\* what a call of format_score gives: the string returned, or the exception
\* that leaves it
Returned(text) == [raised |-> "none", text |-> text]
Raising(error) == [raised |-> error, text |-> <<>>]

\* str(int(x)) of a float: int() truncates toward zero and raises OverflowError
\* for an infinity
StrInt(x) ==
    IF x.inf THEN Raising("OverflowError")
    ELSE Returned(Str(IF x.negative THEN 0 - x.whole ELSE x.whole))

\* str(int(float(v))) under "except (ValueError, TypeError)"
StrIntFloat(v) ==
    LET x == FloatOf(v)
    IN  IF x.error # "none" THEN Returned(<<"0">>) ELSE StrInt(x)

\* format_score(score)
FormatScore(s) ==
    IF s.kind = "none" THEN Returned(<<"0">>)
    ELSE IF s.kind = "str"
    THEN LET stripped == Strip(s.chars)
             x == FloatOfString(stripped)
             numbers == FirstNumber(stripped)
         IN  IF stripped = <<>> THEN Returned(<<"0">>)
             ELSE IF x.error = "none" THEN StrInt(x)
             ELSE IF numbers # <<>> THEN Returned(Str(DigitsValue(numbers)))
             ELSE Returned(<<"0">>)
    ELSE IF s.kind = "dict"
    THEN StrIntFloat(Get(s.entries, "value", Get(s.entries, "displayValue", IntScore(0))))
    ELSE StrIntFloat(s)

\* the scores handed in
MaxScore == 12
MaxScoreLen == 3
ScoreStrings == UNION {[1..n -> ScorePieces] : n \in 0..MaxScoreLen}
PlainScores == {NoneScore, IntScore(7), IntScore(0 - 2), StrScore(<<"1", "5">>),
                StrScore(<<" ", "5">>), StrScore(<<"-", "inf">>), StrScore(<<"x", "5">>)}
ScoreDicts == UNION {[keys -> PlainScores] : keys \in SUBSET {"value", "displayValue"}}
Scores ==
    {NoneScore} \cup {IntScore(n) : n \in (0 - MaxScore)..MaxScore}
    \cup {StrScore(s) : s \in ScoreStrings} \cup {DictScore(d) : d \in ScoreDicts}

\* one call of format_score
FormatStep ==
    \E s \in Scores :
        /\ score' = s
        /\ score_text' = FormatScore(s)
        /\ UNCHANGED <<pluginvars, cache, ncaaw_favorite_teams, teamidvars, clock,
                       backgroundvars, current_games, game_event, details, current_game>>

\* ------------------------------------------------- get_dynamic_duration_cap
\* a cap, or None
NoCap == [present |-> FALSE, negative |-> FALSE, inf |-> FALSE, whole |-> 0, part |-> FALSE]
Cap(x) == [present |-> TRUE, negative |-> x.negative, inf |-> x.inf, whole |-> x.whole,
           part |-> x.part]

\* "cap > 0" for a float
Positive(x) == ~x.negative /\ (x.inf \/ x.whole > 0 \/ x.part)

\* one level: "max_duration_seconds" in d, float() of it succeeds and is > 0
LevelCap(d) ==
    IF "max_duration_seconds" \notin DOMAIN d THEN NoCap
    ELSE LET x == FloatOf(d["max_duration_seconds"])
         IN  IF x.error = "none" /\ Positive(x) THEN Cap(x) ELSE NoCap

\* BasePlugin.get_dynamic_duration_cap, reached through super(): the global value
BaseGetDynamicDurationCap == LevelCap(Get(config, "dynamic_duration", EmptyDict))

\* the first cap of a sequence of levels, the global one after them
RECURSIVE FirstCap(_, _)
FirstCap(levels, i) ==
    IF i > Len(levels) THEN BaseGetDynamicDurationCap
    ELSE IF LevelCap(levels[i]).present THEN LevelCap(levels[i])
    ELSE FirstCap(levels, i + 1)

\* get_dynamic_duration_cap for the display context (league, mode_type)
GetDynamicDurationCap(league, mode_type) ==
    IF ~is_enabled THEN NoCap
    ELSE IF league = NoLeague \/ mode_type = NoType THEN BaseGetDynamicDurationCap
    ELSE LET league_config == LeagueConfig(config, league)
             league_dynamic == Get(league_config, "dynamic_duration", EmptyDict)
             league_modes_cfg == Get(league_dynamic, "modes", EmptyDict)
             mode_config == Get(league_modes_cfg, mode_type, EmptyDict)
             global_dynamic == Get(config, "dynamic_duration", EmptyDict)
             global_modes == Get(global_dynamic, "modes", EmptyDict)
             global_mode_config == Get(global_modes, mode_type, EmptyDict)
         IN  FirstCap(<<mode_config, league_dynamic, global_mode_config>>, 1)

\* -------------------------------------------------------- _test_mode_update
\* s.split(':'): the pieces between the colons
RECURSIVE Split(_)
Split(s) ==
    IF \A i \in 1..Len(s) : s[i] # ":" THEN <<s>>
    ELSE LET k == CHOOSE i \in 1..Len(s) : s[i] = ":" /\ \A j \in 1..(i - 1) : s[j] # ":"
         IN  <<SubSeq(s, 1, k - 1)>> \o Split(SubSeq(s, k + 1, Len(s)))

\* int(s) of a clock field succeeds on a non-empty run of digits
IsNumber(s) == s # <<>> /\ \A i \in 1..Len(s) : IsDigit(s[i])

\* "minutes, seconds = map(int, clock.split(':'))": a ValueError unless there
\* are exactly two fields and both are numbers
ParseClock(clock_text) ==
    LET fields == Split(clock_text)
    IN  IF Len(fields) = 2 /\ IsNumber(fields[1]) /\ IsNumber(fields[2])
        THEN [ok |-> TRUE, minutes |-> DigitsValue(fields[1]), seconds |-> DigitsValue(fields[2])]
        ELSE [ok |-> FALSE, minutes |-> 0, seconds |-> 0]

\* f"{n:02d}"
TwoDigits(n) == IF 0 <= n /\ n < 10 THEN <<"0">> \o Str(n) ELSE Str(n)

\* f"{minutes:02d}:{seconds:02d}"
ClockText(minutes, seconds) == TwoDigits(minutes) \o <<":">> \o TwoDigits(seconds)

\* no current game
NoGame == [kind |-> "none"]

\* a current game as far as _test_mode_update reads and writes it
LiveGame(is_live, period, period_text, clock_text) ==
    [kind |-> "game", is_live |-> is_live, period |-> period, period_text |-> period_text,
     clock |-> clock_text, status_text |-> period_text \o <<" ">> \o clock_text]

\* the game NCAAMBasketballLiveManager.__init__ starts with in test mode
TestGame == LiveGame(TRUE, 2, <<"Q", "2">>, <<"0", "5", ":", "3", "0">>)

\* variant: overtime starts with the clock of a quarter
TestModeUpdate_QuarterClock(game) ==
    IF game.kind = "none" \/ ~game.is_live THEN game
    ELSE LET parsed == ParseClock(game.clock)
             borrow == parsed.seconds - 1 < 0
             ended == borrow /\ parsed.minutes - 1 < 0
             period == IF ended THEN game.period + 1 ELSE game.period
             period_text == IF ~ended THEN game.period_text
                            ELSE IF game.period < 4
                            THEN IF period \in 1..4 THEN <<"Q">> \o Str(period)
                                 ELSE game.period_text
                            ELSE <<"OT">> \o Str(period - 4)
             minutes == IF ended THEN 12
                        ELSE IF borrow THEN parsed.minutes - 1 ELSE parsed.minutes
             seconds == IF ended THEN 0 ELSE IF borrow THEN 59 ELSE parsed.seconds - 1
         IN  IF ~parsed.ok THEN game
             ELSE LiveGame(TRUE, period, period_text, ClockText(minutes, seconds))

\* _test_mode_update() on current_game: what current_game is afterwards
TestModeUpdate(game) ==
    IF game.kind = "none" \/ ~game.is_live THEN game
    ELSE LET parsed == ParseClock(game.clock)
             borrow == parsed.seconds - 1 < 0
             ended == borrow /\ parsed.minutes - 1 < 0
             period == IF ended THEN game.period + 1 ELSE game.period
             period_text == IF ~ended THEN game.period_text
                            ELSE IF game.period < 4
                            THEN IF period \in 1..4 THEN <<"Q">> \o Str(period)
                                 ELSE game.period_text
                            ELSE <<"OT">> \o Str(period - 4)
             minutes == IF ended THEN (IF game.period < 4 THEN 12 ELSE 5)
                        ELSE IF borrow THEN parsed.minutes - 1 ELSE parsed.minutes
             seconds == IF ended THEN 0 ELSE IF borrow THEN 59 ELSE parsed.seconds - 1
         IN  IF ~parsed.ok THEN game
             ELSE LiveGame(TRUE, period, period_text, ClockText(minutes, seconds))

\* the current games a test-mode update finds: the test game, no game, a game
\* that is over, and a live game with the clock as the feed writes it
GameOver == LiveGame(FALSE, 4, <<"Final">>, <<"0", ":", "0", "0">>)
FeedGame == LiveGame(TRUE, 4, <<"Q", "4">>, <<"0", ":", "0", "2">>)
CurrentGames == {TestGame, NoGame, GameOver, FeedGame}

\* one call of _test_mode_update; the simulation is followed up to MaxPeriod
TestModeStep ==
    /\ current_game.kind = "game" => current_game.period <= MaxPeriod
    /\ TestModeUpdate(current_game).kind = "game" => TestModeUpdate(current_game).period <= MaxPeriod
    /\ current_game' = TestModeUpdate(current_game)
    /\ UNCHANGED <<pluginvars, cache, ncaaw_favorite_teams, teamidvars, clock,
                   backgroundvars, current_games, game_event, details, score, score_text>>

\* ------------------------------------------------------- sport layer start
\* no score formatted
NoScore == NoneScore
NoText == Returned(<<>>)

\* the sport layer before anything was extracted, formatted or simulated
SportStart(event, held_score, game) ==
    /\ game_event = event
    /\ details = NoDetails
    /\ score = held_score
    /\ score_text = NoText
    /\ current_game = game
SportIdle == SportStart(NoEvent, NoScore, NoGame)

\* ------------------------------------------------------------ construction
\* __init__: managers, mode list and cycle fields of a plugin built from cfg
Construct ==
    /\ ~constructed
    /\ UNCHANGED fetchvars
    /\ constructed' = TRUE
    /\ config' = config
    /\ managers' = InitialManagers(config)
    /\ modes' = GetAvailableModes(config)
    /\ current_mode_index' = 0
    /\ last_mode_switch' = 0
    /\ UNCHANGED <<dynvars, ctxvars>>

\* the managers' fetch layer before any fetch, for the favorite teams of the
\* NCAA Women's config, a host with or without a background service and what the
\* host's cache holds
NoRequest == 0
FetchStart(favorite_teams, background_service, held) ==
    /\ cache = held
    /\ ncaaw_favorite_teams = favorite_teams
    /\ team_id_cache = EmptyDict
    /\ team_id_cache_timestamp = 0
    /\ team_id_stored_at = EmptyDict
    /\ clock = 0
    /\ background_available = background_service
    /\ background_fetch_requests = EmptyDict
    /\ in_flight = {}
    /\ submitting = NoRequest
    /\ current_games = <<>>
FetchIdle == FetchStart(<<>>, FALSE, EmptyDict) /\ SportIdle

\* the plugin object before __init__ has filled it
Unbuilt(cfg) ==
    /\ FetchIdle
    /\ constructed = FALSE
    /\ config = cfg
    /\ managers = EmptyDict
    /\ modes = <<>>
    /\ current_mode_index = 0
    /\ last_mode_switch = 0
    /\ seen_modes = {}
    /\ mode_to_manager_key = EmptyDict
    /\ manager_progress = EmptyDict
    /\ managers_completed = {}
    /\ cycle_complete = FALSE
    /\ display_league = NoLeague
    /\ display_mode_type = NoType

\* the plugin object as __init__ leaves it
PluginBuilt(cfg) ==
    /\ constructed = TRUE
    /\ config = cfg
    /\ managers = InitialManagers(cfg)
    /\ modes = GetAvailableModes(cfg)
    /\ current_mode_index = 0
    /\ last_mode_switch = 0
    /\ seen_modes = {}
    /\ mode_to_manager_key = EmptyDict
    /\ manager_progress = EmptyDict
    /\ managers_completed = {}
    /\ cycle_complete = FALSE
    /\ display_league = NoLeague
    /\ display_mode_type = NoType
Built(cfg) == FetchIdle /\ PluginBuilt(cfg)

\* ---------------------------------------------------------- configurations
LeagueDict(enabled, priority, display_modes, favorite_teams, dynamic_duration) ==
    [enabled |-> enabled, live_priority |-> priority, display_modes |-> display_modes,
     favorite_teams |-> favorite_teams, dynamic_duration |-> dynamic_duration]

\* a config dict: the plugin's own keys and one entry per league of DOMAIN lgs
ConfigDict(enabled, duration, lgs, dynamic_duration) ==
    [k \in {"enabled", "display_duration", "dynamic_duration"} \cup DOMAIN lgs |->
        CASE k = "enabled" -> enabled
          [] k = "display_duration" -> duration
          [] k = "dynamic_duration" -> dynamic_duration
          [] OTHER -> lgs[k]]

\* {"enabled": v} with the key absent for "absent"
Levels == {"absent", "on", "off"}
EnabledDict(v) == IF v = "absent" THEN EmptyDict ELSE [k \in {"enabled"} |-> v = "on"]
\* {"enabled": e, "modes": {t: {"enabled": m}}} with absent keys left out
DynamicDict(e, t, m) ==
    LET modes_dict == IF m = "absent" THEN EmptyDict ELSE [k \in {t} |-> EnabledDict(m)]
    IN  [k \in (IF e = "absent" THEN {} ELSE {"enabled"}) \cup
               (IF m = "absent" THEN {} ELSE {"modes"}) |->
            IF k = "enabled" THEN e = "on" ELSE modes_dict]

FavoriteChoices == {{}, {"BOS"}}
NoLiveFlag == [k \in {"show_live"} |-> FALSE]

\* configurations of the live-priority checks: up to two leagues enabled,
\* dynamic duration left off
LiveLeagueSets == {S \in SUBSET LeagueSet : Cardinality(S) <= 2}
LiveConfigs ==
    UNION {{ConfigDict(TRUE, d, [l \in S |-> LeagueDict(TRUE, lp[l], dm, fav, EmptyDict)],
                       EmptyDict) :
               lp \in [S -> BOOLEAN], d \in 0..MaxDuration, fav \in FavoriteChoices,
               dm \in IF Cardinality(S) = 1 THEN {EmptyDict, NoLiveFlag}
                       ELSE {EmptyDict}} : S \in LiveLeagueSets}
    \cup {ConfigDict(FALSE, 0, [l \in {"nba"} |->
                                  LeagueDict(TRUE, TRUE, EmptyDict, {}, EmptyDict)],
                     EmptyDict)}

\* configurations of the dynamic-duration checks: NBA enabled with its live and
\* recent modes; dynamic duration on globally, on for the league only, on but
\* switched off for the league's live mode, and off
NoUpcomingFlag == [k \in {"show_upcoming"} |-> FALSE]
DynLevels == {<<"absent", "absent", "on">>, <<"on", "absent", "off">>,
              <<"absent", "off", "on">>, <<"absent", "absent", "absent">>}
DynConfigs ==
    {ConfigDict(TRUE, 0, [l \in {"nba"} |->
                            LeagueDict(TRUE, FALSE, NoUpcomingFlag, {},
                                       DynamicDict(v[1], "live", v[2]))],
                DynamicDict(v[3], "live", "absent")) : v \in DynLevels}

\* configurations of the override tree: NBA enabled, "enabled" present or absent
\* at each of the four levels
OverrideConfigs ==
    {ConfigDict(TRUE, 0, [l \in {"nba"} |->
                            LeagueDict(TRUE, FALSE, EmptyDict, {}, DynamicDict(le, t, lm))],
                DynamicDict(ge, t, gm)) :
        le \in Levels, lm \in Levels, ge \in Levels, gm \in Levels, t \in {"live"}}

\* configurations of the mode registry: no league, any two leagues each enabled
\* or not with any display_modes dict, and all four leagues enabled
FlagDicts == Dicts({"show_live", "show_recent", "show_upcoming"}, BOOLEAN)
ModeConfigs ==
    UNION {{ConfigDict(TRUE, 0, [l \in S |-> LeagueDict(en[l], FALSE, dm[l], {}, EmptyDict)],
                       EmptyDict) :
               en \in [S -> BOOLEAN], dm \in [S -> FlagDicts]} :
           S \in {T \in SUBSET LeagueSet : Cardinality(T) \in {0, 2}}}
    \cup {ConfigDict(TRUE, 0, [l \in LeagueSet |->
                                 LeagueDict(TRUE, FALSE, dm[l], {}, EmptyDict)],
                     EmptyDict) :
             dm \in [LeagueSet -> {EmptyDict, NoLiveFlag, NoUpcomingFlag}]}

\* ------------------------------------------------------------ specifications
\* the steps take a manager's display() to return True or False or to raise: a
\* manager returning None leaves the same fields as one returning True
StepResults == Results \ {"None"}
StepResultSeqs(n) == {rs \in ResultSeqs(n) : \A k \in 1..n : rs[k] \in StepResults}
\* current_game_index is read only after a result other than False
IndexInputsFor(r) == IF r = "True" THEN IndexInputs ELSE {NoIndex}
DisplayCycleStep ==
    \E t \in Times, r \in StepResults : \E gi \in IndexInputsFor(r) : DisplayCycle(t, r, gi)
DisplayModeStep ==
    \E display_mode \in StepDisplayModes :
        \E rs \in StepResultSeqs(Len(ManagersToTry(ModeTypeOf(display_mode)))) :
            \E gi \in IF \E k \in 1..Len(rs) : rs[k] = "True"
                      THEN IndexInputs ELSE {NoIndex} :
                DisplayMode(display_mode, rs, gi)
\* an update() after which one manager of a registered mode holds another list
UpdateStep == \E m \in Range(modes) : \E games \in PlainLists : Update(m, games)
\* an update() after which one live manager holds another list of live games
UpdateLiveStep == \E l \in LeagueSet : \E games \in LiveLists : Update(<<l, "live">>, games)
\* a display() tick of a plugin that has dynamic duration off: no index is read
DisplayCycleLiveStep == \E t \in Times, r \in StepResults : DisplayCycle(t, r, NoIndex)

Init == \E cfg \in DynConfigs : Built(cfg)
Next == DisplayCycleStep \/ DisplayModeStep \/ UpdateStep \/ ResetCycleState
            \/ IsCycleComplete
Spec == Init /\ [][Next]_vars

InitLive == \E cfg \in LiveConfigs : Built(cfg)
NextLive == DisplayCycleLiveStep \/ UpdateLiveStep
SpecLive == InitLive /\ [][NextLive]_vars

InitModes == \E cfg \in ModeConfigs : Unbuilt(cfg)
NextModes == Construct
SpecModes == InitModes /\ [][NextModes]_vars

InitOverrides == \E cfg \in OverrideConfigs : Built(cfg)
NextOverrides == DisplayCycleStep
SpecOverrides == InitOverrides /\ [][NextOverrides]_vars

\* ============================================================ fetch layer
\* ------------------------------------------------- upstream and cache values
\* a JSON value as the fetch code tells it apart: a dict with "events", a list,
\* None, or anything else that is truthy
DictValue(events) == [kind |-> "dict", events |-> events]
ListValue(events) == [kind |-> "list", events |-> events]
NoneValue == [kind |-> "none", events |-> <<>>]
OtherValue == [kind |-> "other", events |-> <<>>]
\* "if cached_data:"
Truthy(v) == v.kind \in {"dict", "other"} \/ (v.kind = "list" /\ v.events # <<>>)

\* events of the upstream: an id ("" when the event has none) and the team whose
\* schedule carried it
NoEventId == ""
Event(id, of, status) == [id |-> id, of |-> of, status |-> status]
\* the schedules a team's endpoint may answer with: the two teams share event e2
ScheduleBodies(team) ==
    {<<>>, <<Event("e1", team, "final"), Event("e2", team, "final")>>,
     <<Event("e2", team, "final"), Event(NoEventId, team, "final")>>}
ScoreboardBodies == {<<>>, <<Event("e3", "scoreboard", "live")>>}

\* how a request ends: a body, or one of the failures of
\* session.get / raise_for_status / response.json
Failures == {"network_error", "timeout", "http_error", "bad_body"}
Failed(k) == [status |-> k, teams |-> EmptyDict, events |-> <<>>]
TeamsOk(directory) == [status |-> "ok", teams |-> directory, events |-> <<>>]
EventsOk(events) == [status |-> "ok", teams |-> EmptyDict, events |-> events]

\* the requests a call issues, in order
TeamsRequest == [endpoint |-> "teams", dates |-> "none", arg |-> "none"]
TeamScheduleRequest(team_id) ==
    [endpoint |-> "team_schedule", dates |-> "none", arg |-> team_id]
\* the scoreboard endpoint, with the "dates" parameter or without it
ScoreboardRequest(dates) == [endpoint |-> "scoreboard", dates |-> dates, arg |-> "none"]

\* cache keys; the season is the one season of the clock's year
CombinedKey == <<"ncaaw", "favorite_teams_schedule">>
TeamScheduleKey(team_id) == <<"ncaaw", "team_schedule", team_id>>
CurrentScoreboardKey == <<"ncaaw", "scoreboard_current">>
NcaamScheduleKey == <<"ncaam", "schedule">>
StandaloneKey(league_key) == <<"basketball", league_key>>
\* cache_manager.get(key): None when nothing is held
CacheGet(c, key) == Get(c, key, NoneValue)
\* cache_manager.delete(key)
CacheDelete(c, key) == [k \in (DOMAIN c) \ {key} |-> c[k]]

\* ------------------------------------------------------ NCAA Women's manager
Teams == {"UCONN", "SCAR"}
NoTeamId == ""
\* the ids of the ESPN teams endpoint
Directory == [t \in Teams |-> IF t = "UCONN" THEN "41" ELSE "2579"]
TeamIdCacheDuration == 86400
HalfLifetime == TeamIdCacheDuration \div 2
\* time.time() at clock reading c
Time(c) == c * HalfLifetime

\* the fields the fetch functions read and write, with the requests issued so far
FetchState == [cache |-> cache, ids |-> team_id_cache, ts |-> team_id_cache_timestamp,
               stored |-> team_id_stored_at, reqs |-> <<>>]
SetFetch(F) ==
    /\ cache' = F.cache
    /\ team_id_cache' = F.ids
    /\ team_id_cache_timestamp' = F.ts
    /\ team_id_stored_at' = F.stored

\* _get_team_id(team_abbr) when the teams endpoint answers resp: the fields it
\* leaves and the id returned, NoTeamId for None
GetTeamId(F, team_abbr, resp) ==
    LET current_time == Time(clock)
    IN  IF team_abbr \in DOMAIN F.ids /\ current_time - F.ts < TeamIdCacheDuration
        THEN [st |-> F, result |-> F.ids[team_abbr]]
        ELSE LET F1 == [F EXCEPT !.reqs = Append(@, TeamsRequest)]
             IN  IF resp.status # "ok" THEN [st |-> F1, result |-> NoTeamId]
                 ELSE IF team_abbr \in DOMAIN resp.teams /\ resp.teams[team_abbr] # NoTeamId
                 THEN [st |-> [F1 EXCEPT !.ids = SetKey(@, team_abbr, resp.teams[team_abbr]),
                                         !.ts = current_time,
                                         !.stored = SetKey(@, team_abbr, current_time)],
                       result |-> resp.teams[team_abbr]]
                 ELSE [st |-> F1, result |-> NoTeamId]

\* variant: a failed request leaves an empty schedule in the cache
FetchTeamSchedule_CachesFailure(F, team_id, use_cache, resp) ==
    LET cache_key == TeamScheduleKey(team_id)
        cached_data == CacheGet(F.cache, cache_key)
    IN  IF use_cache /\ Truthy(cached_data) /\ cached_data.kind = "dict"
        THEN [st |-> F, result |-> cached_data]
        ELSE IF use_cache /\ Truthy(cached_data) /\ cached_data.kind = "list"
        THEN [st |-> F, result |-> DictValue(cached_data.events)]
        ELSE LET F1 == [F EXCEPT !.reqs = Append(@, TeamScheduleRequest(team_id))]
             IN  IF resp.status # "ok"
                 THEN [st |-> [F1 EXCEPT !.cache = SetKey(@, cache_key, DictValue(<<>>))],
                       result |-> NoneValue]
                 ELSE LET result == DictValue(resp.events)
                      IN  [st |-> [F1 EXCEPT !.cache = SetKey(@, cache_key, result)],
                           result |-> result]

\* _fetch_team_schedule(team_id, season_year, use_cache) when the schedule
\* endpoint answers resp
FetchTeamSchedule(F, team_id, use_cache, resp) ==
    LET cache_key == TeamScheduleKey(team_id)
        cached_data == CacheGet(F.cache, cache_key)
    IN  IF use_cache /\ Truthy(cached_data) /\ cached_data.kind = "dict"
        THEN [st |-> F, result |-> cached_data]
        ELSE IF use_cache /\ Truthy(cached_data) /\ cached_data.kind = "list"
        THEN [st |-> F, result |-> DictValue(cached_data.events)]
        ELSE LET F1 == [F EXCEPT !.reqs = Append(@, TeamScheduleRequest(team_id))]
             IN  IF resp.status # "ok" THEN [st |-> F1, result |-> NoneValue]
                 ELSE LET result == DictValue(resp.events)
                      IN  [st |-> [F1 EXCEPT !.cache = SetKey(@, cache_key, result)],
                           result |-> result]

\* "all_events[event_id] = event": all_events as the list of its values, in the
\* order the ids were first inserted
PutEvent(all_events, event) ==
    IF \E i \in 1..Len(all_events) : all_events[i].id = event.id
    THEN [i \in 1..Len(all_events) |->
             IF all_events[i].id = event.id THEN event ELSE all_events[i]]
    ELSE Append(all_events, event)

\* variant: events are appended without looking at their id
MergeEvents_NoDedup(all_events, events, i) == all_events \o events

\* "for event in team_data['events']" from the i-th event on
RECURSIVE MergeEvents(_, _, _)
MergeEvents(all_events, events, i) ==
    IF i > Len(events) THEN all_events
    ELSE MergeEvents(IF events[i].id # NoEventId THEN PutEvent(all_events, events[i])
                     ELSE all_events,
                     events, i + 1)

\* "for team_abbr in self.favorite_teams" from the i-th team on; id_resp and
\* schedule_resp are the answers of the two endpoints for each team
RECURSIVE TeamLoop(_, _, _, _, _, _)
TeamLoop(F, all_events, i, use_cache, id_resp, schedule_resp) ==
    IF i > Len(ncaaw_favorite_teams) THEN [st |-> F, all_events |-> all_events]
    ELSE LET team_abbr == ncaaw_favorite_teams[i]
             found == GetTeamId(F, team_abbr, id_resp[team_abbr])
         IN  IF found.result = NoTeamId
             THEN TeamLoop(found.st, all_events, i + 1, use_cache, id_resp, schedule_resp)
             ELSE LET team == FetchTeamSchedule(found.st, found.result, use_cache,
                                                schedule_resp[team_abbr])
                  IN  TeamLoop(team.st,
                               IF team.result.kind = "dict"
                               THEN MergeEvents(all_events, team.result.events, 1)
                               ELSE all_events,
                               i + 1, use_cache, id_resp, schedule_resp)

\* the fallback of _fetch_ncaaw_api_data (lines 178-206) when the scoreboard
\* endpoint answers resp
ScoreboardFallback(F, use_cache, resp) ==
    LET cache_key == CurrentScoreboardKey
        cached_data == CacheGet(F.cache, cache_key)
    IN  IF use_cache /\ Truthy(cached_data) /\ cached_data.kind = "dict"
        THEN [st |-> F, result |-> cached_data]
        ELSE LET F1 == [F EXCEPT !.reqs = Append(@, ScoreboardRequest("none"))]
             IN  IF resp.status # "ok" THEN [st |-> F1, result |-> NoneValue]
                 ELSE LET data == DictValue(resp.events)
                      IN  [st |-> [F1 EXCEPT !.cache = SetKey(@, cache_key, data)],
                           result |-> data]

\* _fetch_ncaaw_api_data(use_cache)
FetchNcaawApiData(F, use_cache, id_resp, schedule_resp, resp) ==
    IF ncaaw_favorite_teams # <<>>
    THEN LET cached_data == CacheGet(F.cache, CombinedKey)
         IN  IF use_cache /\ Truthy(cached_data) /\ cached_data.kind = "dict"
             THEN [st |-> F, result |-> cached_data]
             ELSE IF use_cache /\ Truthy(cached_data) /\ cached_data.kind = "list"
             THEN [st |-> F, result |-> DictValue(cached_data.events)]
             ELSE LET looped == TeamLoop(F, <<>>, 1, use_cache, id_resp, schedule_resp)
                  IN  IF looped.all_events # <<>>
                      THEN LET combined_data == DictValue(looped.all_events)
                           IN  [st |-> [looped.st EXCEPT
                                          !.cache = SetKey(@, CombinedKey, combined_data)],
                                result |-> combined_data]
                      ELSE ScoreboardFallback(looped.st, use_cache, resp)
    ELSE ScoreboardFallback(F, use_cache, resp)

\* --------------------------------------------------------- NCAA Men's manager
\* the one season of the clock's year, as the key of background_fetch_requests
Season == "season"
MaxRequests == 3
RequestIds == 1..MaxRequests

\* the cache check of _fetch_ncaam_api_data (lines 67-83): the cache it leaves and
\* what it returns, NoneValue when the call goes on to fetch
NcaamCacheCheck(c, use_cache) ==
    LET cached_data == CacheGet(c, NcaamScheduleKey)
    IN  IF use_cache /\ Truthy(cached_data)
        THEN IF cached_data.kind = "dict" THEN [cache |-> c, result |-> cached_data]
             ELSE IF cached_data.kind = "list"
             THEN [cache |-> c, result |-> DictValue(cached_data.events)]
             ELSE [cache |-> CacheDelete(c, NcaamScheduleKey), result |-> NoneValue]
        ELSE [cache |-> c, result |-> NoneValue]

\* variant: the fetch is done on the calling thread whatever the service
FetchNcaamApiData_AlwaysSynchronous(F, use_cache, resp, partial_data) ==
    LET checked == NcaamCacheCheck(F.cache, use_cache)
        F0 == [F EXCEPT !.cache = checked.cache]
    IN  IF checked.result # NoneValue
        THEN [st |-> F0, result |-> checked.result, submitted |-> FALSE]
        ELSE LET F1 == [F0 EXCEPT !.reqs = Append(@, ScoreboardRequest("season"))]
             IN  IF resp.status # "ok"
                 THEN [st |-> F1, result |-> NoneValue, submitted |-> FALSE]
                 ELSE LET data == DictValue(resp.events)
                      IN  [st |-> [F1 EXCEPT !.cache = SetKey(@, NcaamScheduleKey, data)],
                           result |-> data, submitted |-> FALSE]

\* _fetch_ncaam_api_data(use_cache) on the calling thread: resp is the answer to
\* the synchronous request, partial_data what _get_weeks_data() gives; submitted
\* tells whether a background fetch was submitted
FetchNcaamApiData(F, use_cache, resp, partial_data) ==
    LET checked == NcaamCacheCheck(F.cache, use_cache)
        F0 == [F EXCEPT !.cache = checked.cache]
    IN  IF checked.result # NoneValue
        THEN [st |-> F0, result |-> checked.result, submitted |-> FALSE]
        ELSE IF background_available
        THEN [st |-> F0,
              result |-> IF Truthy(partial_data) THEN partial_data ELSE NoneValue,
              submitted |-> TRUE]
        ELSE LET F1 == [F0 EXCEPT !.reqs = Append(@, ScoreboardRequest("season"))]
             IN  IF resp.status # "ok"
                 THEN [st |-> F1, result |-> NoneValue, submitted |-> FALSE]
                 ELSE LET data == DictValue(resp.events)
                      IN  [st |-> [F1 EXCEPT !.cache = SetKey(@, NcaamScheduleKey, data)],
                           result |-> data, submitted |-> FALSE]

\* fetch_callback(result), lines 91-103
FetchCallback(requests) ==
    IF Season \in DOMAIN requests
    THEN [k \in (DOMAIN requests) \ {Season} |-> requests[k]]
    ELSE requests

\* --------------------------------------------------------- standalone plugin
\* the leagues of league_configs that are enabled in the standalone plugin: nba
\* and one of the leagues whose display_modes carry the sport in their keys
StandaloneLeagues == <<"nba", "ncaam">>

\* the keys of a league's 'display_modes' in _build_league_configs, every flag at
\* its default True: '{league}_{type}' for nba and wnba,
\* '{league}_basketball_{type}' for ncaam and ncaaw
BuildLeagueConfigs(league_key) ==
    IF league_key \in {"ncaam", "ncaaw"}
    THEN {<<league_key, "basketball", t>> : t \in TypeSet}
    ELSE {<<league_key, t>> : t \in TypeSet}
Game(event, league_key) == [id |-> event.id, of |-> league_key, status |-> event.status]

\* an event on which helpers.extract_game_details raises
Raises(event) == event.status = "malformed"

\* "for event in data.get('events', [])" from the i-th event on: an event
\* extract_game_details makes nothing of gives no game, an exception leaves the
\* loop for the "except Exception" of _fetch_league_games
RECURSIVE ExtractGames(_, _, _)
ExtractGames(events, league_key, i) ==
    IF i > Len(events) THEN [raised |-> FALSE, games |-> <<>>]
    ELSE IF Raises(events[i]) THEN [raised |-> TRUE, games |-> <<>>]
    ELSE LET rest == ExtractGames(events, league_key, i + 1)
         IN  IF rest.raised \/ events[i].id = NoEventId THEN rest
             ELSE [rest EXCEPT !.games = <<Game(events[i], league_key)>> \o @]

\* variant: a failed request leaves an empty list in the cache
FetchLeagueGames_CachesFailure(F, league_key, resp) ==
    LET cache_key == StandaloneKey(league_key)
        cached == CacheGet(F.cache, cache_key)
    IN  IF Truthy(cached) THEN [st |-> F, result |-> cached]
        ELSE LET F1 == [F EXCEPT !.reqs = Append(@, ScoreboardRequest("none"))]
             IN  IF resp.status # "ok"
                 THEN [st |-> [F1 EXCEPT !.cache = SetKey(@, cache_key, ListValue(<<>>))],
                       result |-> ListValue(<<>>)]
                 ELSE LET extracted == ExtractGames(resp.events, league_key, 1)
                          games == ListValue(extracted.games)
                      IN  IF extracted.raised THEN [st |-> F1, result |-> ListValue(<<>>)]
                          ELSE [st |-> [F1 EXCEPT !.cache = SetKey(@, cache_key, games)],
                                result |-> games]

\* _fetch_league_games(league_key, league_config) when the league's scoreboard
\* answers resp
FetchLeagueGames(F, league_key, resp) ==
    LET cache_key == StandaloneKey(league_key)
        cached == CacheGet(F.cache, cache_key)
    IN  IF Truthy(cached) THEN [st |-> F, result |-> cached]
        ELSE LET F1 == [F EXCEPT !.reqs = Append(@, ScoreboardRequest("none"))]
             IN  IF resp.status # "ok" THEN [st |-> F1, result |-> ListValue(<<>>)]
                 ELSE LET extracted == ExtractGames(resp.events, league_key, 1)
                          games == ListValue(extracted.games)
                      IN  IF extracted.raised THEN [st |-> F1, result |-> ListValue(<<>>)]
                          ELSE [st |-> [F1 EXCEPT !.cache = SetKey(@, cache_key, games)],
                                result |-> games]

\* "for league_key, league_config in self.league_configs.items()" of the
\* standalone update(), from the i-th enabled league on
RECURSIVE StandaloneLoop(_, _, _, _)
StandaloneLoop(F, all_games, i, resps) ==
    IF i > Len(StandaloneLeagues) THEN [st |-> F, all_games |-> all_games]
    ELSE LET fetched == FetchLeagueGames(F, StandaloneLeagues[i], resps[StandaloneLeagues[i]])
         IN  StandaloneLoop(fetched.st, all_games \o fetched.result.events, i + 1, resps)

\* _determine_display_mode: live, then final, then upcoming; <<>> for None
FirstGameWith(status) ==
    IF \E i \in 1..Len(current_games) : current_games[i].status = status
    THEN current_games[CHOOSE i \in 1..Len(current_games) :
                          /\ current_games[i].status = status
                          /\ \A j \in 1..(i - 1) : current_games[j].status # status]
    ELSE Game(Event(NoEventId, "none", "none"), "none")
DetermineDisplayMode ==
    IF FirstGameWith("live").id # NoEventId THEN <<FirstGameWith("live").of, "live">>
    ELSE IF FirstGameWith("final").id # NoEventId
    THEN <<FirstGameWith("final").of, "recent">>
    ELSE IF FirstGameWith("upcoming").id # NoEventId
    THEN <<FirstGameWith("upcoming").of, "upcoming">>
    ELSE <<>>

\* _filter_games_for_mode(mode): the games whose league has mode as a key of its
\* display_modes and whose status is the one of a type named in mode
StatusOfType(t) == CASE t = "live" -> "live" [] t = "recent" -> "final" [] OTHER -> "upcoming"
RECURSIVE FilterGamesForMode(_, _)
FilterGamesForMode(mode, i) ==
    IF i > Len(current_games) THEN <<>>
    ELSE (IF /\ mode \in BuildLeagueConfigs(current_games[i].of)
             /\ \E t \in TypeSet : /\ t \in Range(mode)
                                   /\ current_games[i].status = StatusOfType(t)
          THEN <<current_games[i]>> ELSE <<>>)
         \o FilterGamesForMode(mode, i + 1)

\* variant: a display() that finds no game fetches the first league again
StandaloneDisplay_FetchesWhenEmpty(display_mode) ==
    LET mode == IF display_mode # <<>> THEN display_mode ELSE DetermineDisplayMode
        filtered_games == IF mode = <<>> THEN <<>> ELSE FilterGamesForMode(mode, 1)
    IN  IF filtered_games = <<>>
        THEN [shown |-> <<>>, reqs |-> <<ScoreboardRequest("none")>>]
        ELSE [shown |-> <<filtered_games[1]>>, reqs |-> <<>>]

\* the standalone display(force_clear, display_mode), <<>> for no display_mode:
\* the game drawn (none for the "No Games" screen) and the requests issued
StandaloneDisplay(display_mode) ==
    LET mode == IF display_mode # <<>> THEN display_mode ELSE DetermineDisplayMode
        filtered_games == IF mode = <<>> THEN <<>> ELSE FilterGamesForMode(mode, 1)
    IN  IF filtered_games = <<>> THEN [shown |-> <<>>, reqs |-> <<>>]
        ELSE [shown |-> <<filtered_games[1]>>, reqs |-> <<>>]

\* what the standalone display() leaves on the display: the "No Games" screen of
\* _display_no_games or the scorebug of the first filtered game
StandaloneFrame(display_mode) ==
    IF StandaloneDisplay(display_mode).shown = <<>> THEN "no_games" ELSE "game"

\* what the plugin's display() does to the display after the current manager's
\* display() has returned (lines 657-671): nothing after a result other than
\* False; after False it clears the display when force_clear is set and draws
\* nothing
PluginFrame(out) ==
    IF out.result # "False" THEN "manager"
    ELSE IF out.force_clear THEN "cleared"
    ELSE "untouched"

\* ------------------------------------------------------------- _fetch_data
\* _fetch_todays_games of the base class: the current-date scoreboard of the
\* league, cached for a short time under a key of its own
TodayKey(sport_key) == <<sport_key, "todays_games">>
FetchTodaysGames(F, sport_key, resp) ==
    LET F1 == [F EXCEPT !.reqs = Append(@, ScoreboardRequest("today"))]
    IN  IF resp.status # "ok" THEN [st |-> F1, result |-> NoneValue]
        ELSE LET data == DictValue(resp.events)
             IN  [st |-> [F1 EXCEPT !.cache = SetKey(@, TodayKey(sport_key), data)],
                  result |-> data]

\* the NCAA managers, by league and class
NcaaManagers == {<<l, t>> : l \in {"ncaam", "ncaaw"}, t \in TypeSet}

\* variant: every manager takes the season path
FetchData_SeasonPathOnly(F, manager, id_resp, schedule_resp, resp) ==
    IF manager[1] = "ncaam"
    THEN LET done == FetchNcaamApiData(F, TRUE, resp, NoneValue)
         IN  [st |-> done.st, result |-> done.result,
              calls |-> <<"_fetch_ncaam_api_data">>]
    ELSE LET done == FetchNcaawApiData(F, TRUE, id_resp, schedule_resp, resp)
         IN  [st |-> done.st, result |-> done.result,
              calls |-> <<"_fetch_ncaaw_api_data">>]

\* _fetch_data of both base classes: the isinstance test on the Live class
FetchData(F, manager, id_resp, schedule_resp, resp) ==
    IF manager[2] = "live"
    THEN LET done == FetchTodaysGames(F, manager[1], resp)
         IN  [st |-> done.st, result |-> done.result,
              calls |-> <<"_fetch_todays_games">>]
    ELSE IF manager[1] = "ncaam"
    THEN LET done == FetchNcaamApiData(F, TRUE, resp, NoneValue)
         IN  [st |-> done.st, result |-> done.result,
              calls |-> <<"_fetch_ncaam_api_data">>]
    ELSE LET done == FetchNcaawApiData(F, TRUE, id_resp, schedule_resp, resp)
         IN  [st |-> done.st, result |-> done.result,
              calls |-> <<"_fetch_ncaaw_api_data">>]

\* ------------------------------------------------------- steps of the fetch layer
MaxClock == 6
FailedResponses == {Failed(k) : k \in Failures}
TeamsResponses == FailedResponses \cup {TeamsOk(Directory), TeamsOk(EmptyDict)}
ScheduleResponses(team) == FailedResponses \cup {EventsOk(b) : b \in ScheduleBodies(team)}
ScoreboardResponses == FailedResponses \cup {EventsOk(b) : b \in ScoreboardBodies}
\* the answers to the calls made for each favorite team inside one fetch
LoopIdResponses == [Range(ncaaw_favorite_teams) -> {Failed("timeout"), TeamsOk(Directory)}]
LoopScheduleResponses ==
    {f \in [Range(ncaaw_favorite_teams) ->
               {Failed("http_error")} \cup UNION {{EventsOk(b) : b \in ScheduleBodies(t)} : t \in Teams}] :
        \A t \in Range(ncaaw_favorite_teams) :
            f[t].status = "ok" => f[t].events \in ScheduleBodies(t)}

\* time passes
Tick ==
    /\ clock < MaxClock
    /\ clock' = clock + 1
    /\ UNCHANGED <<pluginvars, sportvars, cache, ncaaw_favorite_teams, teamidvars, backgroundvars,
                   current_games>>

\* the cache manager drops an entry whose time is up
CacheExpire ==
    /\ \E key \in DOMAIN cache : cache' = CacheDelete(cache, key)
    /\ UNCHANGED <<pluginvars, sportvars, ncaaw_favorite_teams, teamidvars, clock, backgroundvars,
                   current_games>>

GetTeamIdStep ==
    \E team_abbr \in Teams, resp \in TeamsResponses :
        /\ SetFetch(GetTeamId(FetchState, team_abbr, resp).st)
        /\ UNCHANGED <<pluginvars, sportvars, ncaaw_favorite_teams, clock, backgroundvars, current_games>>

FetchTeamScheduleStep ==
    \E team_abbr \in Teams, use_cache \in BOOLEAN :
        \E resp \in ScheduleResponses(team_abbr) :
            /\ SetFetch(FetchTeamSchedule(FetchState, Directory[team_abbr], use_cache, resp).st)
            /\ UNCHANGED <<pluginvars, sportvars, ncaaw_favorite_teams, clock, backgroundvars,
                           current_games>>

FetchNcaawStep ==
    \E use_cache \in BOOLEAN, id_resp \in LoopIdResponses,
       schedule_resp \in LoopScheduleResponses, resp \in ScoreboardResponses :
        /\ SetFetch(FetchNcaawApiData(FetchState, use_cache, id_resp, schedule_resp, resp).st)
        /\ UNCHANGED <<pluginvars, sportvars, ncaaw_favorite_teams, clock, backgroundvars, current_games>>

\* a manager's _fetch_data; a call that submits a background fetch is NcaamSubmit
FetchDataStep ==
    \E manager \in NcaaManagers, id_resp \in LoopIdResponses,
       schedule_resp \in LoopScheduleResponses, resp \in ScoreboardResponses :
        /\ ~(manager[1] = "ncaam" /\ manager[2] # "live"
             /\ FetchNcaamApiData(FetchState, TRUE, resp, NoneValue).submitted)
        /\ SetFetch(FetchData(FetchState, manager, id_resp, schedule_resp, resp).st)
        /\ UNCHANGED <<pluginvars, sportvars, ncaaw_favorite_teams, clock, backgroundvars, current_games>>

\* _fetch_ncaam_api_data served from the cache or fetched on the calling thread
NcaamFetchStep ==
    \E use_cache \in BOOLEAN, resp \in ScoreboardResponses :
        LET done == FetchNcaamApiData(FetchState, use_cache, resp, NoneValue)
        IN  /\ submitting = NoRequest
            /\ ~done.submitted
            /\ SetFetch(done.st)
            /\ UNCHANGED <<pluginvars, sportvars, ncaaw_favorite_teams, clock, backgroundvars,
                           current_games>>

\* _fetch_ncaam_api_data up to submit_fetch_request (lines 59-121): the service
\* hands out request_id
NcaamSubmit ==
    \E use_cache \in BOOLEAN, request_id \in RequestIds :
        LET done == FetchNcaamApiData(FetchState, use_cache, Failed("timeout"), NoneValue)
        IN  /\ submitting = NoRequest
            /\ done.submitted
            /\ request_id \notin in_flight
            /\ \A k \in DOMAIN background_fetch_requests :
                  background_fetch_requests[k] # request_id
            /\ cache' = done.st.cache
            /\ in_flight' = in_flight \cup {request_id}
            /\ submitting' = request_id
            /\ UNCHANGED <<pluginvars, sportvars, ncaaw_favorite_teams, teamidvars, clock,
                           background_available, background_fetch_requests, current_games>>

\* the rest of that call (lines 123-127): the request id is recorded and the
\* partial data returned
NcaamRecord ==
    /\ submitting # NoRequest
    /\ background_fetch_requests' = SetKey(background_fetch_requests, Season, submitting)
    /\ submitting' = NoRequest
    /\ UNCHANGED <<pluginvars, sportvars, cache, ncaaw_favorite_teams, teamidvars, clock,
                   background_available, in_flight, current_games>>

\* the background service completes a request on its worker thread: a fetched
\* schedule goes to the cache under the cache_key of the request, then
\* fetch_callback runs
BackgroundComplete ==
    \E request_id \in in_flight, resp \in ScoreboardResponses :
        /\ in_flight' = in_flight \ {request_id}
        /\ cache' = IF resp.status = "ok"
                    THEN SetKey(cache, NcaamScheduleKey, DictValue(resp.events))
                    ELSE cache
        /\ background_fetch_requests' = FetchCallback(background_fetch_requests)
        /\ UNCHANGED <<pluginvars, sportvars, ncaaw_favorite_teams, teamidvars, clock,
                       background_available, submitting, current_games>>

\* _fetch_league_games of the standalone plugin, called on its own
FetchLeagueGamesStep ==
    \E resp \in ScoreboardResponses :
        /\ SetFetch(FetchLeagueGames(FetchState, "nba", resp).st)
        /\ UNCHANGED <<pluginvars, sportvars, ncaaw_favorite_teams, clock, backgroundvars, current_games>>

\* the answers of the standalone plugin's leagues: a live game, a final game,
\* a live game behind an event the extraction raises on
StandaloneBodies == {<<Event("g1", "espn", "live")>>,
                     <<Event("g2", "espn", "final"), Event(NoEventId, "espn", "final")>>,
                     <<Event("g3", "espn", "malformed"), Event("g1", "espn", "live")>>}
StandaloneResponses == {Failed("timeout")} \cup {EventsOk(b) : b \in StandaloneBodies}

\* update() of the standalone plugin
StandaloneUpdateStep ==
    \E resps \in [Range(StandaloneLeagues) -> StandaloneResponses] :
        LET done == StandaloneLoop(FetchState, <<>>, 1, resps)
        IN  /\ cache' = done.st.cache
            /\ current_games' = done.all_games
            /\ UNCHANGED <<pluginvars, sportvars, ncaaw_favorite_teams, teamidvars, clock,
                           backgroundvars>>

\* display() of the standalone plugin: it draws and leaves every field modelled
\* here as it was
StandaloneDisplayInputs ==
    {<<>>, <<"nba", "live">>, <<"wnba", "recent">>, <<"basketball", "live">>,
     <<"ncaam", "basketball", "live">>}
StandaloneDisplayStep ==
    \E display_mode \in StandaloneDisplayInputs :
        /\ StandaloneDisplay(display_mode).shown \in {<<>>} \cup {<<g>> : g \in Range(current_games)}
        /\ UNCHANGED vars

\* ------------------------------------------- specifications of the fetch layer
\* the plugin of the two NCAA leagues, the women's league with its favorite teams
FetchConfig(favorite_teams) ==
    ConfigDict(TRUE, 0, [l \in {"ncaam", "ncaaw"} |->
                           LeagueDict(TRUE, FALSE, EmptyDict,
                                      IF l = "ncaaw" THEN Range(favorite_teams) ELSE {},
                                      EmptyDict)],
               EmptyDict)
FetchBuilt(favorite_teams, background_service, held) ==
    /\ PluginBuilt(FetchConfig(favorite_teams))
    /\ FetchStart(favorite_teams, background_service, held)
    /\ SportIdle

\* team-id lookups as time passes
InitTeamIds == FetchBuilt(<<>>, FALSE, EmptyDict)
NextTeamIds == GetTeamIdStep \/ Tick
SpecTeamIds == InitTeamIds /\ [][NextTeamIds]_vars

\* the NCAA Women's season fetch with no, one or two favorite teams
InitNcaaw == \E favs \in {<<>>, <<"UCONN">>, <<"UCONN", "SCAR">>} : FetchBuilt(favs, FALSE, EmptyDict)
NextNcaaw == FetchNcaawStep \/ CacheExpire
SpecNcaaw == InitNcaaw /\ [][NextNcaaw]_vars

\* every fetch function of the managers and of the standalone plugin, on a host
\* without a background service
InitFetch == \E favs \in {<<>>, <<"UCONN">>} : FetchBuilt(favs, FALSE, EmptyDict)
NextFetch == GetTeamIdStep \/ FetchTeamScheduleStep \/ FetchNcaawStep \/ NcaamFetchStep
             \/ FetchLeagueGamesStep \/ CacheExpire
SpecFetch == InitFetch /\ [][NextFetch]_vars

\* the managers' _fetch_data
InitDispatch == \E favs \in {<<>>, <<"UCONN">>} : FetchBuilt(favs, FALSE, EmptyDict)
NextDispatch == FetchDataStep \/ CacheExpire
SpecDispatch == InitDispatch /\ [][NextDispatch]_vars

\* the NCAA Men's season fetch with and without a background service; the
\* host's cache may hold an entry of another format
InitNcaam ==
    \E background_service \in BOOLEAN,
       held \in {EmptyDict, [k \in {NcaamScheduleKey} |-> OtherValue]} :
        FetchBuilt(<<>>, background_service, held)
NextNcaam == NcaamFetchStep \/ NcaamSubmit \/ NcaamRecord \/ BackgroundComplete \/ CacheExpire
SpecNcaam == InitNcaam /\ [][NextNcaam]_vars

\* rendering and updating, in the plugin of NBA and WNBA and in the standalone
\* plugin
RenderConfigs ==
    {ConfigDict(TRUE, 0, [l \in {"nba", "wnba"} |->
                            LeagueDict(TRUE, lp, EmptyDict, {}, EmptyDict)],
                EmptyDict) : lp \in BOOLEAN}
InitRender == \E cfg \in RenderConfigs : Built(cfg)
NextRender == DisplayCycleLiveStep \/ DisplayModeStep \/ UpdateLiveStep
              \/ StandaloneUpdateStep \/ StandaloneDisplayStep
SpecRender == InitRender /\ [][NextRender]_vars

\* the season fetches on a host whose cache holds, under any of the schedule
\* keys, an entry of the legacy list shape or of no known shape
ShapeKeys == {NcaamScheduleKey, CombinedKey, CurrentScoreboardKey,
              TeamScheduleKey(Directory["UCONN"])}
HeldShapes ==
    UNION {[K -> {OtherValue, ListValue(<<Event("e1", "UCONN", "final")>>)}] :
              K \in SUBSET ShapeKeys}
InitShapes ==
    \E favs \in {<<>>, <<"UCONN">>}, held \in HeldShapes : FetchBuilt(favs, FALSE, held)
NextShapes == FetchTeamScheduleStep \/ FetchNcaawStep \/ NcaamFetchStep
SpecShapes == InitShapes /\ [][NextShapes]_vars

\* =============================================================== properties
\* ------------------------------------------ specifications of the sport layer
\* extraction of one raw event after another
InitExtract == FetchBuilt(<<>>, FALSE, EmptyDict)
NextExtract == ExtractStep
SpecExtract == InitExtract /\ [][NextExtract]_vars

\* formatting one score after another
InitScores == FetchBuilt(<<>>, FALSE, EmptyDict)
NextScores == FormatStep
SpecScores == InitScores /\ [][NextScores]_vars

\* a BasketballLive manager in test mode, updated again and again
InitTestMode ==
    \E game \in CurrentGames :
        /\ FetchStart(<<>>, FALSE, EmptyDict)
        /\ PluginBuilt(FetchConfig(<<>>))
        /\ SportStart(NoEvent, NoScore, game)
NextTestMode == TestModeStep
SpecTestMode == InitTestMode /\ [][NextTestMode]_vars

\* configurations of the duration caps: NBA enabled, max_duration_seconds at
\* each of the four levels absent, zero, negative, not a number, or a number of
\* its own, as an integer or as a string
NoCapValue == [kind |-> "absent", value |-> 0, chars |-> <<>>]
CapValues(n) == {NoCapValue, IntScore(0), StrScore(<<"x">>), IntScore(n)}
CapDict(c, t, m) ==
    LET modes_dict == [k \in {t} |-> [kk \in {"max_duration_seconds"} |-> m]]
    IN  [k \in (IF c = NoCapValue THEN {} ELSE {"max_duration_seconds"}) \cup
               (IF m = NoCapValue THEN {} ELSE {"modes"}) |->
            IF k = "max_duration_seconds" THEN c ELSE modes_dict]
CapConfigs ==
    {ConfigDict(TRUE, 0, [l \in {"nba"} |->
                            LeagueDict(TRUE, FALSE, EmptyDict, {}, CapDict(lc, "live", lm))],
                CapDict(gc, "live", gm)) :
        lm \in CapValues(10) \cup {IntScore(0 - 5)}, gm \in CapValues(20),
        lc \in CapValues(30) \cup {StrScore(<<"1", "5">>)}, gc \in CapValues(40)}

\* the plugin with its caps, rendering
InitCaps == \E cfg \in CapConfigs : Built(cfg)
NextCaps == DisplayCycleStep
SpecCaps == InitCaps /\ [][NextCaps]_vars

\* update() of the plugin of NBA and WNBA, each manager raising or coming back
\* with a list
UpdateLists == {<<>>, <<OtherGame>>}
UpdateOutcomes == [DOMAIN managers -> {RefreshRaised} \cup {Refreshed(g) : g \in UpdateLists}]
UpdateAllStep == \E outcomes \in UpdateOutcomes : UpdateAll(outcomes)
InitUpdate == \E cfg \in RenderConfigs : Built(cfg)
NextUpdate == UpdateAllStep
SpecUpdate == InitUpdate /\ [][NextUpdate]_vars

\* the plugin of NBA and WNBA, and the same plugin switched off, rendering with
\* and without display_mode and updating
FrameConfigs ==
    RenderConfigs \cup
    {ConfigDict(FALSE, 0, [l \in {"nba", "wnba"} |->
                             LeagueDict(TRUE, TRUE, EmptyDict, {}, EmptyDict)],
                EmptyDict)}
InitFrame == \E cfg \in FrameConfigs : Built(cfg)
NextFrame == DisplayCycleLiveStep \/ DisplayModeStep \/ UpdateLiveStep
SpecFrame == InitFrame /\ [][NextFrame]_vars

\* ---- what the documentation expects, read from the configuration alone
LeagueRank(l) == CASE l = "nba" -> 1 [] l = "wnba" -> 2 [] l = "ncaam" -> 3 [] OTHER -> 4
TypeRank(t) == CASE t = "live" -> 1 [] t = "recent" -> 2 [] OTHER -> 3
ModeRank(m) == 3 * LeagueRank(m[1]) + TypeRank(m[2])
FlagShown(l, t) ==
    LET lc == IF l \in DOMAIN config THEN config[l] ELSE EmptyDict
        dm == IF "display_modes" \in DOMAIN lc THEN lc["display_modes"] ELSE EmptyDict
    IN  IF ShowKey(t) \in DOMAIN dm THEN dm[ShowKey(t)] ELSE TRUE
ShownModes == {m \in LeagueSet \X TypeSet : LeagueEnabledIn(config, m[1]) /\ FlagShown(m[1], m[2])}
RenderedMode == modes[current_mode_index + 1]
LiveModeRegistered == \E i \in 1..Len(modes) : EndsWith(modes[i], "live")

\* C1: on a display() tick without display_mode, when has_live_content() holds
\* (every league with live content has its live mode registered, and the dwell
\* time is positive), the mode rendered that tick is the live mode of a league
\* that has the live content, never another league's live mode.
C1_LiveLeagueRendered ==
    [][\A t \in Times, r \in StepResults :
          (/\ is_enabled /\ display_duration > 0 /\ has_live_content
           /\ \A l \in LeagueSet : LeagueLive(l) => <<l, "live">> \in Range(modes)
           /\ DisplayCycle(t, r, NoIndex))
          => \E l \in LeagueSet : LeagueLive(l) /\ RenderedMode' = <<l, "live">>]_vars

\* C2: with exactly two leagues enabled, A with live_priority and B without, while
\* A has live content and B has no live games, every display() tick leaves the
\* current mode on A's live mode, whichever of the two comes first in the registry.
C2_PinnedToPriorityLeague ==
    [][\A A, B \in LeagueSet : \A t \in Times, r \in StepResults :
          (/\ A # B /\ is_enabled /\ display_duration > 0
           /\ \A l \in LeagueSet : league_enabled(l) <=> l \in {A, B}
           /\ live_priority(A) /\ ~live_priority(B)
           /\ <<A, "live">> \in Range(modes)
           /\ LeagueLive(A) /\ managers[<<B, "live">>].games = <<>>
           /\ DisplayCycle(t, r, NoIndex))
          => RenderedMode' = <<A, "live">>]_vars

\* C3: on a tick where has_live_content() holds, a live mode is registered and the
\* current mode is not a live mode, the mode rendered is a live mode and it is
\* rendered with force_clear true, whatever the time since the last switch and
\* whatever display_duration (0 included): the dwell advance does not move past it.
C3_LivePreemptsDwell ==
    [][\A t \in Times, r \in StepResults :
          (/\ is_enabled /\ has_live_content /\ LiveModeRegistered
           /\ ~EndsWith(RenderedMode, "live")
           /\ DisplayCycle(t, r, NoIndex))
          => /\ EndsWith(RenderedMode', "live")
             /\ \A fc \in BOOLEAN : CycleRender(t, fc, r, NoIndex).out.force_clear]_vars

\* C4: on a tick where has_live_content() is false, if current_time -
\* last_mode_switch >= display_duration the index becomes (index + 1) mod
\* len(modes), last_mode_switch becomes current_time and force_clear is true for
\* the render, which is of the new mode's manager when the mode's league has
\* managers; otherwise the index and last_mode_switch are unchanged.
C4_DwellAdvance ==
    [][\A t \in Times, r \in StepResults :
          (is_enabled /\ ~has_live_content /\ DisplayCycle(t, r, NoIndex))
          => IF t - last_mode_switch >= display_duration
             THEN /\ current_mode_index' = (current_mode_index + 1) % Len(modes)
                  /\ last_mode_switch' = t
                  /\ \A fc \in BOOLEAN :
                        LET out == CycleRender(t, fc, r, NoIndex).out
                        IN  /\ out.force_clear
                            /\ league_enabled(RenderedMode'[1]) => out.mode = RenderedMode'
             ELSE UNCHANGED cyclevars]_vars
\* a plugin without any live_priority is back on the first mode after a full round
C4_WrappedAround ==
    /\ constructed /\ is_enabled
    /\ \A l \in LeagueSet : ~live_priority(l)
    /\ Len(modes) >= 2
    /\ current_mode_index = 0
    /\ last_mode_switch \in Times

\* ---- dynamic duration
DynamicEnabledForAllModes ==
    is_enabled /\ \A l \in LeagueSet, t \in TypeSet :
                     league_enabled(l) => SupportsDynamicDuration(l, t)
AllModesDone(D) ==
    \A i \in 1..Len(modes) : /\ modes[i] \in D.seen
                             /\ modes[i] \in DOMAIN D.key
                             /\ D.key[modes[i]] \in D.completed

\* C5: with dynamic duration enabled, _dynamic_cycle_complete is true only if every
\* mode of self.modes is in the seen set and every mode's manager key is in the
\* completed set; and is_cycle_complete() finds the cycle complete only then.
C5_CompleteOnlyWhenAllDone ==
    constructed =>
        /\ (DynamicEnabledForAllModes /\ cycle_complete) => AllModesDone(DynState)
        /\ DynamicFeatureEnabled(display_league, display_mode_type) =>
              LET D == EvaluateDynamicCycleCompletion(DynState, display_league,
                                                      display_mode_type)
              IN  D.complete => AllModesDone(D)
\* a complete cycle of two modes that took a manager through two games
C5_CycleCompleted ==
    /\ constructed /\ DynamicEnabledForAllModes /\ cycle_complete
    /\ Len(modes) >= 2
    /\ \E key \in managers_completed :
          key \in DOMAIN manager_progress /\ Cardinality(manager_progress[key]) >= 2

\* C6: _record_dynamic_progress marks a manager with N >= 2 games complete only
\* when N distinct indices of 0..N-1 have been recorded for it; a manager with 0
\* or 1 games is complete on its first recorded render.
C6_ProgressCompletion ==
    constructed =>
        \A m \in DOMAIN managers, gi \in IndexInputs, l \in LeagueSet, t \in TypeSet :
            DynamicFeatureEnabled(l, t) =>
                LET D == RecordDynamicProgress(DynState, current_mode_index, m, gi, l, t)
                    key == <<RenderedMode, m>>
                    N == Len(managers[m].games)
                IN  /\ (N >= 2 /\ key \in D.completed /\ key \notin managers_completed)
                          => /\ key \in DOMAIN D.progress
                             /\ D.progress[key] = {<<"index", i>> : i \in 0..(N - 1)}
                    /\ N <= 1 => key \in D.completed
\* a manager of two games completed with both of its indices recorded
C6_TwoGamesCompleted ==
    \E key \in managers_completed :
        /\ key[2] \in DOMAIN managers
        /\ Len(managers[key[2]].games) = 2
        /\ key \in DOMAIN manager_progress
        /\ manager_progress[key] = {<<"index", 0>>, <<"index", 1>>}

\* C7: after reset_cycle_state() the seen set, the mode-to-key map, the progress
\* map and the completed set are empty and the flag is false; with dynamic
\* duration enabled is_cycle_complete() right after it returns false.
C7_ResetClears ==
    [][ResetCycleState =>
          /\ seen_modes' = {} /\ DOMAIN mode_to_manager_key' = {}
          /\ DOMAIN manager_progress' = {} /\ managers_completed' = {}
          /\ cycle_complete' = FALSE
          /\ DynamicFeatureEnabled(display_league, display_mode_type)'
                => ~IsCycleCompleteResult']_vars
\* the cleared fields of a plugin that has rendered with dynamic duration enabled
C7_ClearedAfterRender ==
    /\ constructed
    /\ DynamicFeatureEnabled(display_league, display_mode_type)
    /\ display_league # NoLeague
    /\ \E m \in DOMAIN managers : Len(managers[m].games) >= 2
    /\ seen_modes = {} /\ managers_completed = {} /\ ~cycle_complete
    /\ ~IsCycleCompleteResult

\* C8: supports_dynamic_duration() resolves per-league-per-mode, then per-mode
\* (dynamic_duration.modes.<type>), then per-league, then global: when the
\* per-mode and the per-league settings disagree the per-mode value is returned.
ClaimedDynamic(league, mode_type) ==
    LET league_dynamic == Get(LeagueConfig(config, league), "dynamic_duration", EmptyDict)
        league_mode == Get(Get(league_dynamic, "modes", EmptyDict), mode_type, EmptyDict)
        global_dynamic == Get(config, "dynamic_duration", EmptyDict)
        global_mode == Get(Get(global_dynamic, "modes", EmptyDict), mode_type, EmptyDict)
    IN  IF "enabled" \in DOMAIN league_mode THEN league_mode["enabled"]
        ELSE IF "enabled" \in DOMAIN global_mode THEN global_mode["enabled"]
        ELSE IF "enabled" \in DOMAIN league_dynamic THEN league_dynamic["enabled"]
        ELSE Get(global_dynamic, "enabled", FALSE)
C8_OverridePrecedence ==
    (constructed /\ is_enabled /\ display_league # NoLeague /\ display_mode_type # NoType)
        => SupportsDynamicDuration(display_league, display_mode_type)
              = ClaimedDynamic(display_league, display_mode_type)

\* C9: the list _get_available_modes builds has no duplicates, is in league order
\* nba, wnba, ncaam, ncaaw and within a league live, recent, upcoming; a mode is in
\* it iff its league is enabled and its show flag is true (true when absent),
\* except when no mode would be left.
C9_ModeRegistry ==
    constructed =>
        /\ \A i, j \in 1..Len(modes) : i # j => modes[i] # modes[j]
        /\ \A i, j \in 1..Len(modes) : i < j => ModeRank(modes[i]) < ModeRank(modes[j])
        /\ ShownModes # {} => Range(modes) = ShownModes
\* two leagues registered, one of them with a mode switched off
C9_TwoLeaguesFiltered ==
    /\ constructed
    /\ \E i, j \in 1..Len(modes) : modes[i][1] # modes[j][1]
    /\ \E m \in LeagueSet \X TypeSet : LeagueEnabledIn(config, m[1]) /\ ~FlagShown(m[1], m[2])
    /\ Range(modes) = ShownModes

\* C10: self.modes is never empty after construction; with no league enabled, or
\* every display-mode flag false, it is exactly nba_live, nba_recent, nba_upcoming.
C10_NeverEmpty ==
    constructed =>
        /\ Len(modes) > 0
        /\ ShownModes = {} =>
              modes = <<(<<"nba", "live">>), <<"nba", "recent">>, <<"nba", "upcoming">>>>
\* a league is enabled, all of its flags are false, and the default list is there
C10_DefaultAfterAllFlagsOff ==
    /\ constructed
    /\ \E l \in LeagueSet : LeagueEnabledIn(config, l)
    /\ ShownModes = {}
    /\ modes = <<(<<"nba", "live">>), <<"nba", "recent">>, <<"nba", "upcoming">>>>

\* C11: with no league enabled and the mode list defaulted to the three NBA
\* modes, every display() tick without display_mode resolves a manager for the
\* current mode and calls its display(): it never ends with no manager available.
C11_DefaultModesRender ==
    [][\A t \in Times, r \in StepResults :
          (/\ is_enabled
           /\ \A l \in LeagueSet : ~league_enabled(l)
           /\ modes = <<(<<"nba", "live">>), <<"nba", "recent">>, <<"nba", "upcoming">>>>
           /\ DisplayCycle(t, r, NoIndex))
          => CycleRender(t, FALSE, r, NoIndex).out.mode # NoManager]_vars

\* C16: the team-id cache has a 24-hour lifetime per entry: a lookup of team T
\* answers from the cache, without a request, only if T's own entry was stored
\* less than 86400 seconds ago, whatever lookups of other teams came between.
C16_PerEntryLifetime ==
    \A team_abbr \in Teams, resp \in TeamsResponses :
        LET done == GetTeamId(FetchState, team_abbr, resp)
        IN  (team_abbr \in DOMAIN team_id_cache /\ done.st.reqs = <<>>)
            => Time(clock) - team_id_stored_at[team_abbr] < TeamIdCacheDuration

\* C13: when _fetch_ncaaw_api_data has no favorite team, or the id lookup or the
\* schedule fetch of every favorite fails, the scoreboard request it falls back
\* to carries the dates of the whole season rather than asking for the current date.
C13_FallbackSeasonLong ==
    \A use_cache \in BOOLEAN, id_resp \in LoopIdResponses,
       schedule_resp \in LoopScheduleResponses, resp \in ScoreboardResponses :
        LET reqs == FetchNcaawApiData(FetchState, use_cache, id_resp, schedule_resp, resp).st.reqs
        IN  \A i \in 1..Len(reqs) :
               reqs[i].endpoint = "scoreboard" => reqs[i].dates = "season"

\* the favorite teams whose schedule request was issued and answered during a call
\* that issued reqs
FetchedTeams(reqs, schedule_resp) ==
    {t \in Range(ncaaw_favorite_teams) :
        /\ TeamScheduleRequest(Directory[t]) \in Range(reqs)
        /\ schedule_resp[t].status = "ok"}
\* the event ids of a list of events
EventIds(events) == {events[i].id : i \in 1..Len(events)} \ {NoEventId}
\* the call does not answer from the combined key
CombinedMiss(use_cache) ==
    ~(use_cache /\ Truthy(CacheGet(cache, CombinedKey))
      /\ CacheGet(cache, CombinedKey).kind \in {"dict", "list"})
\* result is a merged list held under the combined key: every event has an id, no
\* id occurs twice, and every id of wanted is there
MergedUnderCombinedKey(done, wanted) ==
    /\ done.result.kind = "dict"
    /\ CombinedKey \in DOMAIN done.st.cache
    /\ done.st.cache[CombinedKey] = done.result
    /\ \A i \in 1..Len(done.result.events) :
          /\ done.result.events[i].id # NoEventId
          /\ \A j \in 1..Len(done.result.events) :
                done.result.events[i].id = done.result.events[j].id => i = j
    /\ wanted \subseteq EventIds(done.result.events)

\* C15 as stated: with favorite teams configured and no answer from the combined
\* key, _fetch_ncaaw_api_data returns and caches under the combined key a merged
\* list in which every event id occurs once and which holds every id-bearing
\* event of every schedule fetched successfully.
C15_MergedAlways ==
    \A use_cache \in BOOLEAN, id_resp \in LoopIdResponses,
       schedule_resp \in LoopScheduleResponses, resp \in ScoreboardResponses :
        LET done == FetchNcaawApiData(FetchState, use_cache, id_resp, schedule_resp, resp)
            wanted == UNION {EventIds(schedule_resp[t].events) :
                                t \in FetchedTeams(done.st.reqs, schedule_resp)}
        IN  (ncaaw_favorite_teams # <<>> /\ CombinedMiss(use_cache))
            => MergedUnderCombinedKey(done, wanted)

\* C15 amended: the same, for the calls in which a schedule fetched successfully
\* carried at least one id-bearing event.
C15_MergedWhenEventsFetched ==
    \A use_cache \in BOOLEAN, id_resp \in LoopIdResponses,
       schedule_resp \in LoopScheduleResponses, resp \in ScoreboardResponses :
        LET done == FetchNcaawApiData(FetchState, use_cache, id_resp, schedule_resp, resp)
            wanted == UNION {EventIds(schedule_resp[t].events) :
                                t \in FetchedTeams(done.st.reqs, schedule_resp)}
        IN  (ncaaw_favorite_teams # <<>> /\ CombinedMiss(use_cache) /\ wanted # {})
            => MergedUnderCombinedKey(done, wanted)

\* two favorite teams were merged: the event they share is held once, in the copy
\* of the team fetched last
C15_SharedEventMerged ==
    /\ Len(ncaaw_favorite_teams) = 2
    /\ CombinedKey \in DOMAIN cache
    /\ Len(cache[CombinedKey].events) = 2
    /\ \E i \in 1..2 : /\ cache[CombinedKey].events[i].id = "e2"
                       /\ cache[CombinedKey].events[i].of = "SCAR"

\* a call wrote nothing: every entry the cache holds after it was held before it
NoCacheWrite(before, after) ==
    \A k \in DOMAIN after : k \in DOMAIN before /\ after[k] = before[k]

\* C12: a request that fails (network error, timeout, non-2xx status, undecodable
\* body) inside _fetch_ncaam_api_data on the calling thread, _get_team_id,
\* _fetch_team_schedule, _fetch_ncaaw_api_data or the standalone
\* _fetch_league_games gives the caller None or an empty list and writes nothing
\* to the cache under the key of the failed request. _fetch_ncaaw_api_data gives
\* None when its own request, the one to the scoreboard, is the one that failed.
C12_FailureYieldsNoData ==
    \A resp \in FailedResponses, use_cache \in BOOLEAN :
        /\ \A team_abbr \in Teams :
              /\ LET done == GetTeamId(FetchState, team_abbr, resp)
                 IN  done.st.reqs # <<>>
                     => done.result = NoTeamId /\ NoCacheWrite(cache, done.st.cache)
              /\ LET done == FetchTeamSchedule(FetchState, Directory[team_abbr], use_cache, resp)
                 IN  done.st.reqs # <<>>
                     => done.result = NoneValue /\ NoCacheWrite(cache, done.st.cache)
        /\ LET done == FetchNcaamApiData(FetchState, use_cache, resp, NoneValue)
           IN  done.st.reqs # <<>>
               => done.result = NoneValue /\ NoCacheWrite(cache, done.st.cache)
        /\ LET done == FetchLeagueGames(FetchState, "nba", resp)
           IN  done.st.reqs # <<>>
               => done.result = ListValue(<<>>) /\ NoCacheWrite(cache, done.st.cache)
        /\ \A id_resp \in LoopIdResponses, schedule_resp \in LoopScheduleResponses :
              LET done == FetchNcaawApiData(FetchState, use_cache, id_resp, schedule_resp, resp)
                  reqs == done.st.reqs
              IN  /\ \A t \in Range(ncaaw_favorite_teams) :
                        schedule_resp[t].status # "ok"
                        => CacheGet(done.st.cache, TeamScheduleKey(Directory[t]))
                           = CacheGet(cache, TeamScheduleKey(Directory[t]))
                  /\ (reqs # <<>> /\ reqs[Len(reqs)].endpoint = "scoreboard")
                     => /\ done.result = NoneValue
                        /\ CacheGet(done.st.cache, CurrentScoreboardKey)
                           = CacheGet(cache, CurrentScoreboardKey)

\* entries are held and a refetch of each that fails would leave them as they are
C12_FailedRefetchKeepsEntries ==
    /\ NcaamScheduleKey \in DOMAIN cache
    /\ TeamScheduleKey(Directory["UCONN"]) \in DOMAIN cache
    /\ ncaaw_favorite_teams # <<>>
    /\ LET done == FetchNcaamApiData(FetchState, FALSE, Failed("timeout"), NoneValue)
       IN  done.st.reqs # <<>> /\ done.st.cache = cache
    /\ LET done == FetchTeamSchedule(FetchState, Directory["UCONN"], FALSE, Failed("bad_body"))
       IN  done.st.reqs # <<>> /\ done.st.cache = cache

\* the entries of the season paths: the combined schedule, the team schedules,
\* the fallback scoreboard and the NCAA Men's season schedule
SeasonKeys ==
    {CombinedKey, CurrentScoreboardKey, NcaamScheduleKey}
    \cup {TeamScheduleKey(Directory[t]) : t \in Teams}

\* C14: _fetch_data of a Live manager goes to _fetch_todays_games and to nothing
\* else: no season-schedule fetch, no team-id lookup, no team-schedule request,
\* with or without favorite teams; _fetch_data of a Recent or Upcoming manager
\* never goes to _fetch_todays_games.
C14_LiveDispatch ==
    \A manager \in NcaaManagers, id_resp \in LoopIdResponses,
       schedule_resp \in LoopScheduleResponses, resp \in ScoreboardResponses :
        LET done == FetchData(FetchState, manager, id_resp, schedule_resp, resp)
            reqs == done.st.reqs
        IN  IF manager[2] = "live"
            THEN /\ done.calls = <<"_fetch_todays_games">>
                 /\ \A i \in 1..Len(reqs) :
                       reqs[i].endpoint = "scoreboard" /\ reqs[i].dates = "today"
                 /\ done.st.ids = team_id_cache
                 /\ \A k \in SeasonKeys : CacheGet(done.st.cache, k) = CacheGet(cache, k)
            ELSE /\ "_fetch_todays_games" \notin Range(done.calls)
                 /\ \A i \in 1..Len(reqs) : reqs[i].dates # "today"
                 /\ \A l \in {"ncaam", "ncaaw"} :
                       CacheGet(done.st.cache, TodayKey(l)) = CacheGet(cache, TodayKey(l))

\* with a favorite team configured, a Live manager and a Recent or Upcoming
\* manager of the women's league have both fetched
C14_BothPathsTaken ==
    /\ ncaaw_favorite_teams # <<>>
    /\ TodayKey("ncaaw") \in DOMAIN cache
    /\ CombinedKey \in DOMAIN cache
    /\ "UCONN" \in DOMAIN team_id_cache

\* what _get_weeks_data() may hand to a call that submitted a fetch
PartialData == {NoneValue, DictValue(<<>>), DictValue(<<Event("e4", "weeks", "final")>>)}

\* C17: with a background service and nothing usable in the cache,
\* _fetch_ncaam_api_data submits the fetch and returns without a request on the
\* calling thread and without writing the cache, giving the partial data or None;
\* and whenever the service is there, a call gives data other than the partial
\* data only by reading the entry under the season's schedule key.
C17_SubmitsWithoutRequest ==
    \A use_cache \in BOOLEAN, resp \in ScoreboardResponses, partial_data \in PartialData :
        LET done == FetchNcaamApiData(FetchState, use_cache, resp, partial_data)
            miss == NcaamCacheCheck(cache, use_cache).result = NoneValue
        IN  background_available
            => /\ done.st.reqs = <<>>
               /\ miss => /\ done.submitted
                          /\ done.result = partial_data
                          /\ NoCacheWrite(cache, done.st.cache)
               /\ ~miss => /\ ~done.submitted
                           /\ use_cache
                           /\ done.result = DictValue(cache[NcaamScheduleKey].events)

\* a fetch submitted to the service has completed and left the season's schedule
\* in the cache, where the next call finds it
C17_CompletedInCache ==
    /\ background_available
    /\ in_flight = {}
    /\ submitting = NoRequest
    /\ NcaamScheduleKey \in DOMAIN cache
    /\ cache[NcaamScheduleKey].kind = "dict"
    /\ cache[NcaamScheduleKey].events # <<>>

\* C18: once the callback of a submitted fetch has run and the submitting call has
\* returned, background_fetch_requests holds no entry for the season, however the
\* callback and the statement recording the request id interleave.
C18_NoStaleRequest ==
    (in_flight = {} /\ submitting = NoRequest)
    => Season \notin DOMAIN background_fetch_requests

C20_RaisingCandidateSkipped ==
    \A display_mode \in StepDisplayModes :
        LET mode_type == ModeTypeOf(display_mode)
            to_try == ManagersToTry(mode_type)
        IN  \A rs \in StepResultSeqs(Len(to_try)), k \in 1..Len(to_try) :
               (constructed /\ is_enabled /\ mode_type # NoType /\ rs[k] = "raise")
               => LET done == TryManagers(to_try, 1,
                                 [league |-> display_league, mode_type |-> display_mode_type],
                                 mode_type, FALSE, rs, NoIndex)
                  IN  /\ done.out.mode = to_try[Len(to_try)]
                      /\ done.out.result = "False"

\* C28: has_live_content() is true exactly when the plugin is enabled and some
\* league is enabled, has live_priority, has its live manager and holds a
\* non-empty live_games list which, when the manager has favorite teams, has a
\* game with a favorite at home or away; a league without live_priority never
\* contributes.
C28_LiveContentExact ==
    constructed =>
        (has_live_content <=>
            /\ Get(config, "enabled", TRUE)
            /\ \E l \in LeagueSet :
                  /\ Get(Get(config, l, EmptyDict), "enabled", FALSE)
                  /\ Get(Get(config, l, EmptyDict), "live_priority", FALSE)
                  /\ <<l, "live">> \in DOMAIN managers
                  /\ managers[<<l, "live">>].games # <<>>
                  /\ \/ managers[<<l, "live">>].favorite_teams = {}
                     \/ \E g \in Range(managers[<<l, "live">>].games) :
                           \/ g.home_abbr \in managers[<<l, "live">>].favorite_teams
                           \/ g.away_abbr \in managers[<<l, "live">>].favorite_teams)

\* one league shows live content through a favorite's game while another, without
\* live_priority, holds a live game that does not count
C28_PriorityLeagueOnly ==
    /\ has_live_content
    /\ \E l \in LeagueSet :
          /\ LeagueLive(l)
          /\ managers[<<l, "live">>].favorite_teams # {}
    /\ \E l \in LeagueSet :
          /\ <<l, "live">> \in DOMAIN managers
          /\ ~live_priority(l)
          /\ managers[<<l, "live">>].games # <<>>

\* the first manager of to_try whose display() gives something other than False
\* under rs, 0 when there is none
FirstContent(to_try, rs) ==
    IF \E k \in 1..Len(to_try) : rs[k] # "False"
    THEN CHOOSE k \in 1..Len(to_try) :
            rs[k] # "False" /\ \A j \in 1..(k - 1) : rs[j] = "False"
    ELSE 0

\* C29: display() with a display_mode ending in _live, _recent or _upcoming tries
\* the manager of that type of each enabled league in the order NBA, WNBA, NCAA
\* Men's, NCAA Women's and stops at the first whose display() gives something
\* other than False: it returns False exactly when every candidate gave False or
\* there was none, and the last display() called is that first manager's.  No
\* manager raises here.
C29_FirstContentWins ==
    \A display_mode \in DisplayModeInputs :
        LET mode_type == ModeTypeOf(display_mode)
            to_try == ManagersToTry(mode_type)
        IN  \A rs \in ResultSeqs(Len(to_try)) :
               (/\ constructed /\ is_enabled /\ mode_type # NoType
                /\ \A k \in 1..Len(to_try) : rs[k] # "raise")
               => LET done == TryManagers(to_try, 1,
                                 [league |-> display_league, mode_type |-> display_mode_type],
                                 mode_type, FALSE, rs, NoIndex)
                      first == FirstContent(to_try, rs)
                  IN  /\ done.out.result = "False" <=> first = 0
                      /\ first # 0 => done.out.mode = to_try[first]
                      /\ \A i, j \in 1..Len(to_try) :
                            i < j => LeagueRank(to_try[i][1]) < LeagueRank(to_try[j][1])

\* C21: whenever no game is available for the active mode the display operation
\* leaves the "no games" placeholder: the standalone display() when no mode can
\* be determined or the filtered list is empty, and the plugin's display() when
\* the current manager returns False.
C21_NoGamesPlaceholder ==
    /\ \A display_mode \in StandaloneDisplayInputs :
          LET mode == IF display_mode # <<>> THEN display_mode ELSE DetermineDisplayMode
          IN  (mode = <<>> \/ FilterGamesForMode(mode, 1) = <<>>)
              => StandaloneFrame(display_mode) = "no_games"
    /\ \A t \in Times, force_clear \in BOOLEAN :
          LET out == CycleRender(t, force_clear, "False", NoIndex).out
          IN  (constructed /\ is_enabled /\ out.mode # NoManager /\ ~out.raised)
              => PluginFrame(out) = "no_games"

\* a call ended as it would have on a host that holds nothing under key
SameAsMiss(done, missed) ==
    /\ done.result = missed.result
    /\ done.st.cache = missed.st.cache
    /\ done.st.reqs = missed.st.reqs
\* the fields of the fetch functions had key not been in the cache
WithoutKey(key) == [FetchState EXCEPT !.cache = CacheDelete(cache, key)]
WrongShape(key) == CacheGet(cache, key).kind = "other"

\* C22: when the entry a fetch function reads holds a value that is neither a
\* dict with "events" nor a list, the function deletes the entry and ends exactly
\* as on a cache miss: same result, same requests, same cache afterwards.  This
\* for _fetch_ncaam_api_data, _fetch_team_schedule and the two reads of
\* _fetch_ncaaw_api_data.
C22_WrongShapeDiscarded ==
    \A resp \in ScoreboardResponses :
        /\ WrongShape(NcaamScheduleKey)
           => SameAsMiss(FetchNcaamApiData(FetchState, TRUE, resp, NoneValue),
                         FetchNcaamApiData(WithoutKey(NcaamScheduleKey), TRUE, resp, NoneValue))
        /\ \A team_abbr \in Teams :
              \A schedule \in ScheduleResponses(team_abbr) :
                 LET key == TeamScheduleKey(Directory[team_abbr])
                 IN  WrongShape(key)
                     => SameAsMiss(FetchTeamSchedule(FetchState, Directory[team_abbr], TRUE,
                                                     schedule),
                                   FetchTeamSchedule(WithoutKey(key), Directory[team_abbr], TRUE,
                                                     schedule))
        /\ \A key \in {CombinedKey, CurrentScoreboardKey},
              id_resp \in LoopIdResponses, schedule_resp \in LoopScheduleResponses :
              (/\ WrongShape(key)
               /\ key = CombinedKey => ncaaw_favorite_teams # <<>>)
              => SameAsMiss(FetchNcaawApiData(FetchState, TRUE, id_resp, schedule_resp, resp),
                            FetchNcaawApiData(WithoutKey(key), TRUE, id_resp, schedule_resp, resp))

\* ---- game extraction
\* an abbreviation of the details dict that is missing or empty
NoAbbr(event, key) == Get(event.details, key, "") = ""

\* C23: a raw event whose home or away team abbreviation is missing or empty
\* gives no record, whatever its status and period
C23_MissingAbbrRejected ==
    (game_event.common = "ok" /\ (NoAbbr(game_event, "home_abbr") \/ NoAbbr(game_event, "away_abbr")))
        => details = NoDetails

\* a live overtime event with an empty home abbreviation was rejected, after
\* an event with both abbreviations would have given a record
C23_EmptyHomeRejected ==
    /\ game_event.common = "ok"
    /\ "home_abbr" \in DOMAIN game_event.details
    /\ game_event.details.home_abbr = ""
    /\ ~NoAbbr(game_event, "away_abbr")
    /\ game_event.status.type.state = "in"
    /\ Get(game_event.status, "period", 0) = 5
    /\ details = NoDetails
    /\ ExtractGameDetails([game_event EXCEPT !.details = AbbrDict("LAL", "BOS")]).kind = "details"

\* the label the documentation gives for a period and a status state
PeriodTable(period, status_state) ==
    IF status_state = "in"
    THEN IF period = 0 THEN <<"Start">>
         ELSE IF period <= 4 THEN <<"Q">> \o Str(period)
         ELSE <<"OT">> \o Str(period - 4)
    ELSE IF period > 4 THEN <<"Final/OT">> ELSE <<"Final">>

\* C25: for the states 'in' and 'post' period_text is the label of the table
\* for (period, status state), whatever the other fields of the event hold
C25_PeriodTextTable ==
    (details.kind = "details" /\ game_event.status.type.state \in {"in", "post"})
        => details.period_text = PeriodTable(details.period, game_event.status.type.state)

\* the games of the events that are neither rejected nor raised on
WellFormedGames(events, league_key) ==
    LET kept == SelectSeq(events, LAMBDA e : ~Raises(e) /\ e.id # NoEventId)
    IN  [i \in 1..Len(kept) |-> Game(kept[i], league_key)]

\* C24: one event that is rejected or raises while being extracted does not
\* abort the batch: _fetch_league_games returns the games of all the other
\* events of the response, and _extract_game_details turns a failure inside
\* _extract_game_details_common into a rejection
C24_MalformedEventSkipped ==
    /\ \A league_key \in Range(StandaloneLeagues), resp \in StandaloneResponses :
           (resp.status = "ok" /\ ~Truthy(CacheGet(cache, StandaloneKey(league_key))))
               => FetchLeagueGames(FetchState, league_key, resp).result
                      = ListValue(WellFormedGames(resp.events, league_key))
    /\ \A event \in RawEvents : ExtractGameDetails(event) # Raised

\* ---- score formatting
\* C26: format_score never raises and returns the decimal string of a
\* non-negative integer, for None, integers, strings and dicts
C26_ScoreTotalNonNegative ==
    \/ score_text = NoText
    \/ /\ score_text.raised = "none"
       /\ score_text.text # <<>>
       /\ \A i \in 1..Len(score_text.text) : IsDigit(score_text.text[i])

\* ---- test mode
\* the clock of a game in seconds
ClockSeconds(game) == 60 * ParseClock(game.clock).minutes + ParseClock(game.clock).seconds

\* C27: whenever _test_mode_update changes the current game, the game was live;
\* the clock went down by one second with the period kept, or it was at 00:00,
\* the period went up by one and the clock is 12:00 up to the fourth period and
\* 05:00 in overtime; seconds stay in 0..59, and period_text is 'Q{period}' for
\* periods 1..4 and 'OT{period-4}' beyond. An absent or finished game is left alone.
C27_TestModeClock ==
    [][current_game' # current_game =>
        /\ current_game.kind = "game" /\ current_game.is_live
        /\ current_game'.kind = "game" /\ current_game'.is_live
        /\ ParseClock(current_game'.clock).ok
        /\ ParseClock(current_game'.clock).seconds \in 0..59
        /\ ParseClock(current_game'.clock).minutes >= 0
        /\ \/ /\ ClockSeconds(current_game) > 0
              /\ ClockSeconds(current_game') = ClockSeconds(current_game) - 1
              /\ current_game'.period = current_game.period
           \/ /\ ClockSeconds(current_game) = 0
              /\ current_game'.period = current_game.period + 1
              /\ current_game'.clock = IF current_game'.period <= 4
                                       THEN <<"1", "2", ":", "0", "0">>
                                       ELSE <<"0", "5", ":", "0", "0">>
        /\ current_game'.period \in 1..4 => current_game'.period_text = <<"Q">> \o Str(current_game'.period)
        /\ current_game'.period > 4 => current_game'.period_text = <<"OT">> \o Str(current_game'.period - 4)
    ]_vars

\* the simulation has run the test game into the first overtime
C27_OvertimeStarted ==
    /\ current_game.kind = "game"
    /\ current_game.period = 5
    /\ current_game.period_text = <<"OT", "1">>
    /\ current_game.clock = <<"0", "4", ":", "5", "9">>

\* ---- duration cap
\* the four levels in the documented order: per-league-per-mode, per-mode,
\* per-league, global
ClaimedCap(league, mode_type) ==
    LET league_dynamic == Get(LeagueConfig(config, league), "dynamic_duration", EmptyDict)
        league_mode == Get(Get(league_dynamic, "modes", EmptyDict), mode_type, EmptyDict)
        global_dynamic == Get(config, "dynamic_duration", EmptyDict)
        global_mode == Get(Get(global_dynamic, "modes", EmptyDict), mode_type, EmptyDict)
    IN  IF LevelCap(league_mode).present THEN LevelCap(league_mode)
        ELSE IF LevelCap(global_mode).present THEN LevelCap(global_mode)
        ELSE IF LevelCap(league_dynamic).present THEN LevelCap(league_dynamic)
        ELSE LevelCap(global_dynamic)

\* C30: get_dynamic_duration_cap() is the first max_duration_seconds, in the
\* order per-league-per-mode, per-mode, per-league, global, that is a number
\* greater than 0, and is absent or strictly positive
C30_CapPrecedence ==
    (constructed /\ is_enabled /\ display_league # NoLeague /\ display_mode_type # NoType)
        => LET cap == GetDynamicDurationCap(display_league, display_mode_type)
           IN  /\ cap = ClaimedCap(display_league, display_mode_type)
               /\ cap.present => Positive(cap)

\* ---- standalone cache
\* C31: once _fetch_league_games has stored a league's games, a later call for
\* the league, the entry still held, returns the stored games and issues no
\* request, an empty list of games included
C31_StoredGamesServed ==
    \A league_key \in Range(StandaloneLeagues), resp \in ScoreboardResponses :
        CacheGet(cache, StandaloneKey(league_key)).kind = "list"
            => LET done == FetchLeagueGames(FetchState, league_key, resp)
               IN  /\ done.result = CacheGet(cache, StandaloneKey(league_key))
                   /\ done.st.reqs = FetchState.reqs

\* ---- update()
\* the leagues one of whose managers raises
RaisingLeagues(outcomes) == {m[1] : m \in {n \in DOMAIN outcomes : outcomes[n].raised}}

\* C32: an exception of one manager's update() stays with its league: after
\* update() every manager of every other enabled league holds the list it
\* came back with
C32_FailureLocalToLeague ==
    (constructed /\ is_enabled) =>
        \A outcomes \in UpdateOutcomes :
            \A m \in DOMAIN managers :
                m[1] \notin RaisingLeagues(outcomes)
                    => UpdateFrom(managers, 1, outcomes)[m].games = outcomes[m].games

\* ---- progress attribution
\* C33: the progress display() records belongs to the mode it rendered: a mode
\* newly in _dynamic_cycle_seen_modes is the rendered manager's league and mode
\* type, and a manager key newly recorded pairs that mode with that manager
C33_ProgressForRenderedMode ==
    [][LET rendered == <<display_league', display_mode_type'>>
       IN  /\ \A m \in seen_modes' \ seen_modes : m = rendered
           /\ \A m \in DOMAIN mode_to_manager_key' :
                  (m \notin DOMAIN mode_to_manager_key
                      \/ mode_to_manager_key'[m] # Get(mode_to_manager_key, m, <<>>))
                      => mode_to_manager_key'[m] = BuildManagerKey(rendered, rendered)
    ]_vars

\* ---- completed managers
\* C34: a manager key in _dynamic_managers_completed whose manager holds N >= 2
\* games has every index 0..N-1 in its progress set, the list having grown or
\* shrunk since or not
C34_CompletedMeansAllShown ==
    \A key \in managers_completed :
        key[2] \in DOMAIN managers =>
            LET total_games == Len(managers[key[2]].games)
            IN  total_games >= 2 =>
                    {Identifier(i) : i \in 0..(total_games - 1)}
                        \subseteq Get(manager_progress, key, {})

\* ---- cycle position
\* C35: after construction current_mode_index is an index of modes and modes
\* is the list the constructor built, whatever is called
C35_IndexInRange ==
    constructed =>
        /\ 0 <= current_mode_index /\ current_mode_index < Len(modes)
        /\ modes = GetAvailableModes(config)

\* the cycle has wrapped: every mode was seen and the index is back at the
\* first of several modes
C35_WrappedToFirst ==
    /\ constructed
    /\ Len(modes) >= 2
    /\ seen_modes = Range(modes)
    /\ current_mode_index = 0
    /\ last_mode_switch >= StartTime

\* ---- first render
\* C36: the first display() after construction, without display_mode and
\* without live content, several modes registered and a dwell time configured,
\* stays on the first mode of the registry
C36_FirstModeRendered ==
    (/\ constructed /\ is_enabled
     /\ last_mode_switch = 0 /\ current_mode_index = 0
     /\ Len(modes) > 1 /\ display_duration > 0
     /\ ~has_live_content)
        => \A t \in Times : CyclePosition(t, FALSE).index = 0

\* ---- frame of display() and update()
\* C37: a display() with display_mode leaves current_mode_index and
\* last_mode_switch as they were, whatever the mode and the managers' results;
\* a plugin that is not enabled changes nothing in display() and update(), and
\* its display() returns False
C37_ExplicitKeepsCycle ==
    /\ [][DisplayModeStep => UNCHANGED cyclevars]_vars
    /\ [][~is_enabled => UNCHANGED vars]_vars
    /\ [](~is_enabled =>
            /\ \A t \in Times, r \in Results :
                   DisplayReturns(CycleRender(t, FALSE, r, NoIndex).out) = "False"
            /\ \A display_mode \in DisplayModeInputs :
                   \A rs \in ResultSeqs(Len(ManagersToTry(ModeTypeOf(display_mode)))) :
                       DisplayReturns(TryManagers(ManagersToTry(ModeTypeOf(display_mode)), 1,
                                          [league |-> display_league,
                                           mode_type |-> display_mode_type],
                                          ModeTypeOf(display_mode), FALSE, rs, NoIndex).out)
                           = "False")

\* a call with display_mode has rendered a live manager while the cycle stood at
\* a mode that is not live
C37_ExplicitRenderedOffCycle ==
    /\ constructed /\ is_enabled
    /\ current_mode_index = 1
    /\ last_mode_switch >= StartTime
    /\ display_mode_type = "live"
    /\ modes[current_mode_index + 1][2] # "live"

\* ---- background fetches in flight
\* C38: while the request id recorded for the season in background_fetch_requests
\* is still in flight (its callback has not run), no further
\* _fetch_ncaam_api_data call submits another fetch for the season: no step adds
\* a request to the ones in flight, so at most one is in flight.
C38_OneFetchInFlight ==
    [][(/\ Season \in DOMAIN background_fetch_requests
        /\ background_fetch_requests[Season] \in in_flight)
       => in_flight' \subseteq in_flight]_vars

\* ---- the mode the standalone plugin chooses for itself
\* C39: the mode _determine_display_mode chooses always has content: when the
\* first live (else final, else upcoming) game is of a league whose flag for that
\* mode is true, _filter_games_for_mode of the chosen mode is a non-empty list
\* holding that game, and display() draws a scorebug, not the 'no games' screen.
C39_ChosenModeHasContent ==
    LET mode == DetermineDisplayMode
        game == FirstGameWith(StatusOfType(mode[Len(mode)]))
    IN  (mode # <<>> /\ BuildLeagueConfigs(game.of) # {})
        => /\ game \in Range(FilterGamesForMode(mode, 1))
           /\ StandaloneFrame(<<>>) = "game"

\* ---- completeness of the merged favorite-teams schedule
\* the favorite teams, from the i-th on, whose id lookup gave no id or whose
\* schedule fetch gave no schedule during the loop over the favorite teams
RECURSIVE FailedTeams(_, _, _, _, _)
FailedTeams(F, i, use_cache, id_resp, schedule_resp) ==
    IF i > Len(ncaaw_favorite_teams) THEN {}
    ELSE LET team_abbr == ncaaw_favorite_teams[i]
             found == GetTeamId(F, team_abbr, id_resp[team_abbr])
         IN  IF found.result = NoTeamId
             THEN {team_abbr} \cup FailedTeams(found.st, i + 1, use_cache, id_resp, schedule_resp)
             ELSE LET team == FetchTeamSchedule(found.st, found.result, use_cache,
                                                schedule_resp[team_abbr])
                  IN  (IF team.result.kind = "dict" THEN {} ELSE {team_abbr})
                      \cup FailedTeams(team.st, i + 1, use_cache, id_resp, schedule_resp)

\* C40: the merged schedule under the combined cache key is complete: a call of
\* _fetch_ncaaw_api_data in which the id lookup or the schedule fetch of at least
\* one favorite team failed writes nothing under the combined key, so a merged
\* set that is cached holds the events of every configured favorite team.
C40_NoPartialMergeCached ==
    \A use_cache \in BOOLEAN, id_resp \in LoopIdResponses,
       schedule_resp \in LoopScheduleResponses, resp \in ScoreboardResponses :
        LET done == FetchNcaawApiData(FetchState, use_cache, id_resp, schedule_resp, resp)
        IN  (/\ ncaaw_favorite_teams # <<>>
             /\ CombinedMiss(use_cache)
             /\ FailedTeams(FetchState, 1, use_cache, id_resp, schedule_resp) # {})
            => CacheGet(done.st.cache, CombinedKey) = CacheGet(cache, CombinedKey)

====
